---- MODULE Spec2Model ----
(***************************************************************************)
(* Model of the Hyperliquid API playground: the API service                *)
(* (api/hyperliquidService.js), the parameter utilities                    *)
(* (utils/parameterUtils.js), the asset mapping service                    *)
(* (services/assetMappingService.js), SimpleApiPlayground, the WebSocket   *)
(* part of ApiPlayground and the BtcDashboard polling loop.                *)
(*                                                                         *)
(* JavaScript runs each handler and each promise continuation to           *)
(* completion; an action of this model is one such run, from an event (a   *)
(* click, a timer tick, a settled fetch, a socket event) to the next       *)
(* await.                                                                  *)
(***************************************************************************)
EXTENDS Integers, Sequences, FiniteSets, TLC

VARIABLES
    apiCall,        \* the HyperliquidApiService.executeRequest call under observation
    serviceBinding, \* what the default import of api/hyperliquidService.js is bound to
    now,            \* the clock read by Date.now() / new Date()
    idToNameMap,    \* AssetMappingService.idToNameMap
    nameToIdMap,    \* AssetMappingService.nameToIdMap
    isLoaded,       \* AssetMappingService.isLoaded
    metadata,       \* AssetMappingService.metadata
    lastLoadTime,   \* AssetMappingService.lastLoadTime
    initCalls,      \* the initialize()/refresh() calls and where each one stands
    lastQuery,      \* the last lookup made on the mapping ("none": no lookup yet)
    play,           \* SimpleApiPlayground's React state
    playReq,        \* the request SimpleApiPlayground.executeRequest is awaiting
    wsRef,          \* ApiPlayground: wsRef.current
    sockets,        \* ApiPlayground: the WebSocket objects constructed so far
    wsOpen,         \* ApiPlayground: the wsOpen flag
    dash,           \* BtcDashboard's React state
    loads,          \* BtcDashboard: the loadBtcData() runs and where each one stands
    timer,          \* BtcDashboard: mounted / interval state and the order of resolution
    wsMessages,     \* ApiPlayground: the WebSocket messages recorded, newest first
    replaceCall,    \* the last replaceParametersInObject call: its arguments and its result
    boot,           \* the App component that initializes the mapping before the playground
    app,            \* src/App.jsx: its state and its two request handlers
    form,           \* ApiPlayground: currentId and params (useLocalState), and their history
    storage,        \* the browser's localStorage entries written by ApiPlayground
    runRest         \* ApiPlayground: loading/status/response/durationMs and the pending runREST()

apiVars  == <<apiCall>>
envVars  == <<serviceBinding, now>>
mapVars  == <<idToNameMap, nameToIdMap, isLoaded, metadata, lastLoadTime>>
mapAll   == <<idToNameMap, nameToIdMap, isLoaded, metadata, lastLoadTime, initCalls, lastQuery>>
playVars == <<play, playReq>>
wsVars   == <<wsRef, sockets, wsOpen, wsMessages>>
dashVars == <<dash, loads, timer>>
utilVars == <<replaceCall>>
formVars == <<form, storage>>
appVars  == <<app>>
bootVars == <<boot>>
runRestVars == <<runRest>>
restVars == <<utilVars, formVars, appVars, bootVars, runRestVars>>
vars     == <<apiCall, serviceBinding, now, idToNameMap, nameToIdMap, isLoaded, metadata,
              lastLoadTime, initCalls, lastQuery, play, playReq, wsRef, sockets, wsOpen,
              wsMessages, dash, loads, timer, replaceCall, boot, app, form, storage, runRest>>

(***************************************************************************)
(* Strings.  A string that the code searches with includes() or builds by  *)
(* concatenation is a sequence of one-character strings.                   *)
(***************************************************************************)
S_fetch  == <<"f","e","t","c","h">>
S_HTTP4  == <<"H","T","T","P"," ","4">>
S_HTTP5  == <<"H","T","T","P"," ","5">>
S_JSON   == <<"J","S","O","N">>
S_HTTP   == <<"H","T","T","P"," ">>
S_Colon  == <<":"," ">>

\* error.message of the TypeError that fetch() rejects with (Chromium; WebKit)
MsgFailedToFetch == <<"F","a","i","l","e","d"," ","t","o"," ","f","e","t","c","h">>
MsgLoadFailed    == <<"L","o","a","d"," ","f","a","i","l","e","d">>
\* error.message of the SyntaxError that response.json() rejects with
MsgJsonSyntax    == <<"U","n","e","x","p","e","c","t","e","d"," ","t","o","k","e","n"," ","<",
                      " ","i","n"," ","J","S","O","N"," ","a","t"," ","p","o","s","i","t",
                      "i","o","n"," ","0">>
\* error.message of the TypeError of a property read on null
MsgNullRead      == <<"C","a","n","n","o","t"," ","r","e","a","d"," ","p","r","o","p","e",
                      "r","t","i","e","s"," ","o","f"," ","n","u","l","l">>

\* String.prototype.includes
Includes(s, pat) ==
    \E i \in 0..(Len(s) - Len(pat)) : SubSeq(s, i + 1, i + Len(pat)) = pat

Digits == <<"0","1","2","3","4","5","6","7","8","9">>

\* String(n) of a three-digit HTTP status
StatusText(n) == << Digits[(n \div 100) + 1], Digits[((n \div 10) % 10) + 1], Digits[(n % 10) + 1] >>

(***************************************************************************)
(* JSON values: templates and request bodies are trees.                    *)
(*   string : [t |-> "str", items |-> parts], a part being a literal       *)
(*            chunk or one {{name}} placeholder                            *)
(*   object : [t |-> "obj", items |-> <<[key, val], ...>>]                 *)
(***************************************************************************)
Lit(text) == [ph |-> FALSE, text |-> text]
Ph(name)  == [ph |-> TRUE, text |-> name]
JStr(parts) == [t |-> "str", items |-> parts]
JObj(pairs) == [t |-> "obj", items |-> pairs]
JArr(vals)  == [t |-> "arr", items |-> vals]
JNull       == [t |-> "null", items |-> <<>>]
JNum(text)  == [t |-> "num", items |-> <<Lit(text)>>]
JBool(text) == [t |-> "bool", items |-> <<Lit(text)>>]
KV(k, v)    == [key |-> k, val |-> v]

\* The parameter object handed to the service: null, or a map name -> value.
EmptyMap   == [n \in {} |-> ""]
NullParams == [isNull |-> TRUE, map |-> EmptyMap]
Params(m)  == [isNull |-> FALSE, map |-> m]

\* the value null of a parameter (not a string)
NullValue == "\\null"

\* parameterMap[paramName] is undefined or null
NoValue(parameterMap, name) ==
    \/ name \notin DOMAIN parameterMap.map
    \/ parameterMap.map[name] = NullValue

\* replaceParametersInString without the undefined/null test: String(undefined)
replaceParametersInStringNoGuard(parts, parameterMap) ==
    [i \in 1..Len(parts) |->
        IF parts[i].ph
           THEN Lit(IF parts[i].text \in DOMAIN parameterMap.map
                       THEN (IF parameterMap.map[parts[i].text] = NullValue
                                THEN "null" ELSE parameterMap.map[parts[i].text])
                       ELSE "undefined")
           ELSE parts[i]]

replaceParametersInString(parts, parameterMap) ==
    [i \in 1..Len(parts) |->
        IF parts[i].ph /\ ~NoValue(parameterMap, parts[i].text)
           THEN Lit(parameterMap.map[parts[i].text])
           ELSE parts[i]]

RECURSIVE replaceParametersInObject(_, _)
replaceParametersInObject(value, parameterMap) ==
    CASE value.t = "null" -> value
      [] value.t = "str"  -> JStr(replaceParametersInString(value.items, parameterMap))
      [] value.t = "arr"  ->
            JArr([i \in 1..Len(value.items) |->
                    replaceParametersInObject(value.items[i], parameterMap)])
      [] value.t = "obj"  ->
            JObj([i \in 1..Len(value.items) |->
                    KV(value.items[i].key,
                       replaceParametersInObject(value.items[i].val, parameterMap))])
      [] OTHER -> value

\* A string of the tree still holds a {{placeholder}}
RECURSIVE HasPlaceholder(_)
HasPlaceholder(value) ==
    CASE value.t = "str" -> \E i \in 1..Len(value.items) : value.items[i].ph
      [] value.t = "arr" -> \E i \in 1..Len(value.items) : HasPlaceholder(value.items[i])
      [] value.t = "obj" -> \E i \in 1..Len(value.items) : HasPlaceholder(value.items[i].val)
      [] OTHER -> FALSE

\* validateParameters(requiredParams, providedParams).missing
validateParametersMissing(requiredParams, providedParams) ==
    { requiredParams[i].name : i \in { j \in 1..Len(requiredParams) :
          /\ requiredParams[j].required
          /\ \/ NoValue(providedParams, requiredParams[j].name)
             \/ providedParams.map[requiredParams[j].name] = "" } }

(***************************************************************************)
(* config/endpoints.js                                                     *)
(***************************************************************************)
Param(name) == [name |-> name, required |-> TRUE]

EndpointIds == {"allMids", "meta", "l2Book", "userState", "candleSnapshot"}

EndpointBody(id) ==
    CASE id = "allMids" -> JObj(<<KV("type", JStr(<<Lit("allMids")>>))>>)
      [] id = "meta"    -> JObj(<<KV("type", JStr(<<Lit("meta")>>))>>)
      [] id = "l2Book"  -> JObj(<<KV("type", JStr(<<Lit("l2Book")>>)),
                                  KV("coin", JStr(<<Ph("coin")>>))>>)
      [] id = "userState" -> JObj(<<KV("type", JStr(<<Lit("clearinghouseState")>>)),
                                    KV("user", JStr(<<Ph("user_address")>>))>>)
      [] id = "candleSnapshot" ->
            JObj(<<KV("type", JStr(<<Lit("candleSnapshot")>>)),
                   KV("req", JObj(<<KV("coin", JStr(<<Ph("coin")>>)),
                                    KV("interval", JStr(<<Ph("interval")>>)),
                                    KV("startTime", JStr(<<Ph("start_time")>>)),
                                    KV("endTime", JStr(<<Ph("end_time")>>))>>))>>)

EndpointParams(id) ==
    CASE id = "l2Book" -> <<Param("coin")>>
      [] id = "userState" -> <<Param("user_address")>>
      [] id = "candleSnapshot" ->
            <<Param("coin"), Param("interval"), Param("start_time"), Param("end_time")>>
      [] OTHER -> <<>>

\* The endpoint argument of executeRequest: a configuration object of
\* endpoints.js, a bare endpoint id (a string), or null/undefined.
EndpointObject(id) == [kind |-> "object", id |-> id]
EndpointString(id) == [kind |-> "string", id |-> id]
EndpointNull       == [kind |-> "null", id |-> ""]

(***************************************************************************)
(* What the network can answer to one fetch().                             *)
(***************************************************************************)
Asset(name) == [name |-> name]

\* A parsed response body, seen through what the code reads of it: whether
\* it has a "universe" property and whether that is an array.
MetaPayload(universe) == [universeKind |-> "array", universe |-> universe]
PayloadNoUniverse     == [universeKind |-> "absent", universe |-> <<>>]
PayloadBadUniverse    == [universeKind |-> "notArray", universe |-> <<>>]
TextPayload           == [universeKind |-> "text", universe |-> <<>>]

FetchReject(message) ==
    [kind |-> "reject", message |-> message, status |-> 0, contentJson |-> FALSE,
     bodyText |-> <<>>, jsonOk |-> FALSE, data |-> PayloadNoUniverse]
FetchResponse(status, contentJson, bodyText, jsonOk, data) ==
    [kind |-> "response", message |-> <<>>, status |-> status, contentJson |-> contentJson,
     bodyText |-> bodyText, jsonOk |-> jsonOk, data |-> data]

\* no fetch() has settled
NoOutcome ==
    [kind |-> "none", message |-> <<>>, status |-> 0, contentJson |-> FALSE,
     bodyText |-> <<>>, jsonOk |-> FALSE, data |-> PayloadNoUniverse]

\* response.ok
ResponseOk(status) == status >= 200 /\ status <= 299

ErrorBodies == { <<>>, <<"n","o">>, S_fetch }

FetchOutcomes(payloads) ==
    { FetchReject(m) : m \in {MsgFailedToFetch, MsgLoadFailed} }
    \cup { FetchResponse(st, FALSE, b, FALSE, PayloadNoUniverse) :
               st \in {301, 404, 500}, b \in ErrorBodies }
    \cup { FetchResponse(200, TRUE, <<>>, TRUE, d) : d \in payloads }
    \cup { FetchResponse(200, TRUE, <<>>, FALSE, PayloadNoUniverse),
           FetchResponse(200, FALSE, <<>>, TRUE, TextPayload) }

(***************************************************************************)
(* api/hyperliquidService.js : HyperliquidApiService                       *)
(***************************************************************************)
NoResult == [state |-> "pending", success |-> FALSE, status |-> 0,
             data |-> PayloadNoUniverse, message |-> <<>>, type |-> ""]

classifyError(message) ==
    IF Includes(message, S_fetch) THEN "network"
    ELSE IF Includes(message, S_HTTP4) THEN "client"
    ELSE IF Includes(message, S_HTTP5) THEN "server"
    ELSE IF Includes(message, S_JSON) THEN "parsing"
    ELSE "unknown"

\* _processResponse: the value it returns, or the message of the error it throws
processResponse(o) ==
    IF ~ResponseOk(o.status)
       THEN [threw |-> TRUE, data |-> PayloadNoUniverse,
             message |-> S_HTTP \o StatusText(o.status) \o S_Colon \o o.bodyText]
    ELSE IF o.contentJson
       THEN IF o.jsonOk
               THEN [threw |-> FALSE, data |-> o.data, message |-> <<>>]
               ELSE [threw |-> TRUE, data |-> PayloadNoUniverse, message |-> MsgJsonSyntax]
    ELSE [threw |-> FALSE, data |-> TextPayload, message |-> <<>>]

\* a catch block that lets the error propagate instead of returning an object
executeRequestCatchRethrow(message) ==
    [state |-> "rejected", success |-> FALSE, status |-> 0, data |-> PayloadNoUniverse,
     message |-> message, type |-> ""]

\* the catch block of executeRequest
executeRequestCatch(message) ==
    [state |-> "resolved", success |-> FALSE, status |-> 0, data |-> PayloadNoUniverse,
     message |-> message, type |-> classifyError(message)]

executeRequestReturn(status, data) ==
    [state |-> "resolved", success |-> TRUE, status |-> status, data |-> data,
     message |-> <<>>, type |-> ""]

\* the promise of executeRequest rejects (an error thrown outside its try)
executeRequestThrow ==
    [state |-> "rejected", success |-> FALSE, status |-> 0, data |-> PayloadNoUniverse,
     message |-> MsgNullRead, type |-> ""]

\* _prepareRequest
NoRequest == [method |-> "", url |-> "", body |-> JNull, hasBody |-> FALSE]

prepareRequestThrows(endpoint, parameters) ==
    /\ endpoint.kind = "object"
    /\ Len(EndpointParams(endpoint.id)) > 0
    /\ parameters.isNull
    /\ HasPlaceholder(EndpointBody(endpoint.id))

prepareRequest(endpoint, parameters) ==
    IF endpoint.kind = "string"
       \* endpoint.method, endpoint.url, endpoint.body, endpoint.params of a string
       THEN [method |-> "undefined", url |-> "undefined", body |-> JNull, hasBody |-> FALSE]
       ELSE [method |-> "POST", url |-> "https://api.hyperliquid.xyz/info",
             body |-> IF Len(EndpointParams(endpoint.id)) > 0
                         THEN replaceParametersInObject(EndpointBody(endpoint.id), parameters)
                         ELSE EndpointBody(endpoint.id),
             hasBody |-> TRUE]

\* executeRequest from its call to the await of fetch()
executeRequestStart(endpoint, parameters) ==
    IF endpoint.kind = "null"
       THEN [phase |-> "settled", endpoint |-> endpoint, parameters |-> parameters,
             fetches |-> 0, request |-> NoRequest, outcome |-> NoOutcome,
             result |-> executeRequestThrow]
    ELSE IF prepareRequestThrows(endpoint, parameters)
       THEN [phase |-> "settled", endpoint |-> endpoint, parameters |-> parameters,
             fetches |-> 0, request |-> NoRequest, outcome |-> NoOutcome,
             result |-> executeRequestCatch(MsgNullRead)]
    ELSE [phase |-> "fetching", endpoint |-> endpoint, parameters |-> parameters,
          fetches |-> 1, request |-> prepareRequest(endpoint, parameters),
          outcome |-> NoOutcome, result |-> NoResult]

\* executeRequest from the settling of fetch() to its return
executeRequestSettle(o) ==
    IF o.kind = "reject" THEN executeRequestCatch(o.message)
    ELSE LET r == processResponse(o)
         IN  IF r.threw THEN executeRequestCatch(r.message)
                        ELSE executeRequestReturn(o.status, r.data)

IdleCall == [phase |-> "idle", endpoint |-> EndpointNull, parameters |-> Params(EmptyMap),
             fetches |-> 0, request |-> NoRequest, outcome |-> NoOutcome, result |-> NoResult]

EndpointArgs ==
    { EndpointObject(id) : id \in EndpointIds }
    \cup { EndpointString(id) : id \in {"meta", "l2Book"} }
    \cup { EndpointNull }

ParamArgs ==
    { NullParams, Params(EmptyMap), Params([n \in {"coin"} |-> "BTC"]),
      Params([n \in {"coin"} |-> ""]), Params([n \in {"user_address"} |-> "0xabc"]) }

ApiPayloads == { MetaPayload(<<Asset("BTC")>>), PayloadNoUniverse }

ApiExecuteRequest(endpoint, parameters) ==
    /\ apiCall.phase # "fetching"
    /\ apiCall' = executeRequestStart(endpoint, parameters)
    /\ UNCHANGED <<envVars, mapAll, playVars, wsVars, dashVars, restVars>>

ApiFetchSettle(o) ==
    /\ apiCall.phase = "fetching"
    /\ apiCall' = [apiCall EXCEPT !.phase = "settled", !.outcome = o,
                                   !.result = executeRequestSettle(o)]
    /\ UNCHANGED <<envVars, mapAll, playVars, wsVars, dashVars, restVars>>

(***************************************************************************)
(* The service object that assetMappingService.js and                      *)
(* SimpleApiPlayground import as the DEFAULT export of                     *)
(* api/hyperliquidService.js.  That file has no default export; the        *)
(* binding is either the exported singleton `hyperliquidApi` ("instance"), *)
(* or a service that passes the parsed response through and rejects on a   *)
(* failure ("passthrough").                                                *)
(***************************************************************************)
Bindings == {"instance", "passthrough"}

\* the pass-through service: the parsed body, or a rejection
passThroughSettle(o) ==
    IF o.kind = "reject"
       THEN [threw |-> TRUE, wrapper |-> FALSE, success |-> FALSE,
             data |-> PayloadNoUniverse, message |-> o.message]
       ELSE LET r == processResponse(o)
            IN  [threw |-> r.threw, wrapper |-> FALSE, success |-> FALSE,
                 data |-> r.data, message |-> r.message]

\* the value of `await hyperliquidApi.executeRequest(id, ...)` for a string id
awaitExecuteRequest(binding, o) ==
    IF binding = "instance"
       THEN LET r == executeRequestSettle(o)
            IN  [threw |-> FALSE, wrapper |-> TRUE, success |-> r.success,
                 data |-> r.data, message |-> r.message]
       ELSE passThroughSettle(o)

(***************************************************************************)
(* services/assetMappingService.js : AssetMappingService                   *)
(***************************************************************************)
N_BTC   == <<"B","T","C">>
N_ETH   == <<"E","T","H">>
N_kPEPE == <<"k","P","E","P","E">>
Names   == {N_BTC, N_ETH, N_kPEPE}

Lower == <<"a","b","c","d","e","f","g","h","i","j","k","l","m",
           "n","o","p","q","r","s","t","u","v","w","x","y","z">>
Upper == <<"A","B","C","D","E","F","G","H","I","J","K","L","M",
           "N","O","P","Q","R","S","T","U","V","W","X","Y","Z">>

\* String.prototype.toUpperCase
toUpperCase(s) ==
    [i \in 1..Len(s) |->
        IF \E k \in 1..Len(Lower) : Lower[k] = s[i]
           THEN Upper[CHOOSE k \in 1..Len(Lower) : Lower[k] = s[i]]
           ELSE s[i]]

\* String(index) of an array index
String(index) == Digits[index + 1]

\* the characters of an id; the ids of more than one character are listed
IdChars(id) ==
    CASE id = "01" -> <<"0", "1">>
      [] id = "1x" -> <<"1", "x">>
      [] OTHER     -> <<id>>

IsDigit(c)    == \E k \in 1..Len(Digits) : Digits[k] = c
DigitValue(c) == (CHOOSE k \in 1..Len(Digits) : Digits[k] = c) - 1

\* the number written by the leading decimal digits of chars, after acc
RECURSIVE leadingNumber(_, _)
leadingNumber(chars, acc) ==
    IF chars = <<>> \/ ~IsDigit(chars[1]) THEN acc
    ELSE leadingNumber(Tail(chars), acc * 10 + DigitValue(chars[1]))

\* parseInt(id, 10): the leading digits are read and what follows them is ignored;
\* NaN (-1 here, which the callers treat alike) when the id starts with no digit
parseInt(id) ==
    IF ~IsDigit(IdChars(id)[1]) THEN -1 ELSE leadingNumber(IdChars(id), 0)

\* a JavaScript value that may be null
Null     == [isNull |-> TRUE]
Value(v) == [isNull |-> FALSE, v |-> v]

NoMetadata == [universeKind |-> "null", universe |-> <<>>]
NoTime     == -1
EmptyMaps  == [idToName |-> [k \in {} |-> <<>>], nameToId |-> [k \in {} |-> ""]]

\* Map.prototype.set
MapSet(m, k, v) == [x \in (DOMAIN m) \cup {k} |-> IF x = k THEN v ELSE m[x]]

\* the forEach of loadMetadata, from array index `index` (1-based here) on
RECURSIVE forEachAsset(_, _, _)
forEachAsset(universe, index, maps) ==
    IF index > Len(universe) THEN maps
    ELSE forEachAsset(universe, index + 1,
            [idToName |-> MapSet(maps.idToName, String(index - 1), universe[index].name),
             nameToId |-> MapSet(maps.nameToId, universe[index].name, String(index - 1))])

\* loadMetadata without the two clear() calls
loadMetadataNoClear(metaResponse) ==
    forEachAsset(metaResponse.universe, 1,
                 [idToName |-> idToNameMap, nameToId |-> nameToIdMap])

\* loadMetadata: both maps are cleared, then filled from the universe
loadMetadata(metaResponse) ==
    forEachAsset(metaResponse.universe, 1, EmptyMaps)

\* the validation of initialize(): response && response.universe && Array.isArray(...)
validMetaResponse(r) ==
    /\ ~r.threw
    /\ ~r.wrapper
    /\ r.data.universeKind = "array"

\* getAssetName without the isLoaded test
getAssetNameNoLoadCheck(assetId) ==
    LET id == IF assetId.isNull THEN "null" ELSE assetId.v
    IN  IF id \in DOMAIN idToNameMap /\ idToNameMap[id] # <<>>
           THEN Value(idToNameMap[id]) ELSE Null

getAssetName(assetId) ==
    IF ~isLoaded THEN Null
    ELSE LET id == IF assetId.isNull THEN "null" ELSE assetId.v
         IN  IF id \in DOMAIN idToNameMap /\ idToNameMap[id] # <<>>
                THEN Value(idToNameMap[id]) ELSE Null

getAssetId(assetName) ==
    IF ~isLoaded THEN Null
    ELSE LET name == toUpperCase(assetName)
         IN  IF name \in DOMAIN nameToIdMap THEN Value(nameToIdMap[name]) ELSE Null

getAssetMetadata(assetId) ==
    IF ~isLoaded \/ metadata.universeKind = "null" THEN Null
    ELSE LET index == IF assetId.isNull THEN -1 ELSE parseInt(assetId.v)
         IN  IF index < 0 \/ index >= Len(metadata.universe)
                THEN Null ELSE Value(metadata.universe[index + 1])

\* An allMids response: an object whose keys are asset ids and whose values are
\* prices.  A key of the transformed object is a name or `UNKNOWN_${assetId}`.
S_UNKNOWN == <<"U","N","K","N","O","W","N","_">>
IdKey(id) == <<id>>
UnknownKey(id) == S_UNKNOWN \o <<id>>
NoPrice == ""

\* the key transformAllMidsResponse writes for assetId
transformedKey(assetId) ==
    LET assetName == getAssetName(Value(assetId))
    IN  IF assetName.isNull THEN UnknownKey(assetId) ELSE assetName.v

\* Object.keys(allMidsResponse) in the order the engine lists them: integer-like
\* keys ascending
RECURSIVE KeysInOrder(_)
KeysInOrder(keys) ==
    IF keys = {} THEN <<>>
    ELSE LET k == CHOOSE x \in keys : \A y \in keys : parseInt(x) <= parseInt(y)
         IN  <<k>> \o KeysInOrder(keys \ {k})

\* the forEach of transformAllMidsResponse: transformed[key] = allMidsResponse[assetId]
RECURSIVE transformEach(_, _, _)
transformEach(allMidsResponse, order, transformed) ==
    IF order = <<>> THEN transformed
    ELSE transformEach(allMidsResponse, Tail(order),
                       MapSet(transformed, transformedKey(Head(order)),
                              allMidsResponse[Head(order)]))

\* the object transformAllMidsResponse returns; a raw response is keyed by its ids
transformAllMidsResponse(allMidsResponse) ==
    IF ~isLoaded
       THEN [k \in { IdKey(id) : id \in DOMAIN allMidsResponse } |-> allMidsResponse[k[1]]]
       ELSE transformEach(allMidsResponse, KeysInOrder(DOMAIN allMidsResponse),
                          [k \in {} |-> NoPrice])

\* the names that are keys of the object transformAllMidsWithMetadata returns; the
\* entry of name n is {price, assetId, name}
transformAllMidsWithMetadata(allMidsResponse) ==
    IF ~isLoaded THEN {}
    ELSE { getAssetName(Value(id)).v :
               id \in { i \in DOMAIN allMidsResponse : ~getAssetName(Value(i)).isNull } }

\* the elements of the arrays getAllAssetNames / getAllAssetIds return
getAllAssetNames == IF ~isLoaded THEN {} ELSE DOMAIN nameToIdMap
getAllAssetIds   == IF ~isLoaded THEN {} ELSE DOMAIN idToNameMap

\* getAssetCount(): this.idToNameMap.size
getAssetCount == Cardinality(DOMAIN idToNameMap)

\* hasAsset(assetName): this.nameToIdMap.has(assetName.toUpperCase())
hasAsset(assetName) == toUpperCase(assetName) \in DOMAIN nameToIdMap

\* hasAssetId(assetId): this.idToNameMap.has(String(assetId))
hasAssetId(assetId) ==
    (IF assetId.isNull THEN "null" ELSE assetId.v) \in DOMAIN idToNameMap

\* The read-only operations of the service.
QueryOps == {"getAssetName", "getAssetId", "getAssetMetadata", "transformAllMidsResponse",
             "transformAllMidsWithMetadata", "getAllAssetNames", "getAllAssetIds",
             "getAssetCount", "hasAsset", "hasAssetId", "getStatus"}

\* the fields of the service after a getAssetName that memoizes a miss
queryEffectCaching(op) ==
    [idToNameMap |-> IF op = "getAssetName" THEN MapSet(idToNameMap, "null", <<>>)
                                                ELSE idToNameMap,
     nameToIdMap |-> nameToIdMap, metadata |-> metadata,
     isLoaded |-> isLoaded, lastLoadTime |-> lastLoadTime]

\* the fields of the service after one of the read-only operations: none
\* of them assigns a field or calls set/clear/delete on a map
queryEffect(op) ==
    [idToNameMap |-> idToNameMap, nameToIdMap |-> nameToIdMap, metadata |-> metadata,
     isLoaded |-> isLoaded, lastLoadTime |-> lastLoadTime]

MaxUniverse  == 2   \* longest universe the network answers with
MaxInitCalls == 2   \* initialize()/refresh() calls that may be in flight together
MaxTime      == 1   \* last value of the clock
MaxQueryCalls == 1  \* calls in flight together while the lookups are exercised

RECURSIVE SeqsUpTo(_, _)
SeqsUpTo(S, n) ==
    IF n = 0 THEN { <<>> }
    ELSE SeqsUpTo(S, n - 1)
         \cup { Append(q, x) : q \in { r \in SeqsUpTo(S, n - 1) : Len(r) = n - 1 }, x \in S }

MapNames  == {N_BTC, N_kPEPE}
Universes == SeqsUpTo({ Asset(n) : n \in MapNames }, MaxUniverse)

MetaPayloads == { MetaPayload(u) : u \in Universes } \cup { PayloadNoUniverse, PayloadBadUniverse }

\* what the network can answer to the fetch of a meta call
MetaOutcomes ==
    { FetchReject(MsgFailedToFetch),
      FetchResponse(404, FALSE, <<>>, FALSE, PayloadNoUniverse),
      FetchResponse(200, TRUE, <<>>, FALSE, PayloadNoUniverse),
      FetchResponse(200, FALSE, <<>>, TRUE, TextPayload) }
    \cup { FetchResponse(200, TRUE, <<>>, TRUE, d) : d \in MetaPayloads }

QueryCallIds == 1..MaxQueryCalls
CallIds == 1..MaxInitCalls

\* initCalls.pc[c]   where call c stands: "idle" (not started, or ended), "awaitMeta"
\*                   (awaiting the meta call), "awaitLoad" (awaiting loadMetadata)
\* initCalls.ended  how the call that ended last ended: "done" (returned), "failed"
\*                  (threw), "none" (no call ended yet)
\* initCalls.outcome what the fetch of the meta call that settled last answered
\* initCalls.prevLen the length of the universe that the maps held before that call
\*                   rebuilt them (-1: they were never built)
\* initCalls.lastValid the answer of the last meta call that passed the validation
\* initCalls.late      while call 1 is in flight: the answer of another call was
\*                     installed after call 1 had started
IdleInit == [pc |-> [c \in CallIds |-> "idle"], ended |-> "none", outcome |-> NoOutcome,
             prevLen |-> -1, lastValid |-> NoOutcome, late |-> FALSE]

\* this.metadata = response that keeps the metadata of an earlier call
setMetadataKeepFirst(prev, response) == IF prev = NoMetadata THEN response.data ELSE prev

\* this.metadata = response
setMetadata(prev, response) == response.data

\* A continuation queued by an await on an already settled promise runs before
\* any further event is dispatched.
NoMicrotask == \A c \in CallIds : initCalls.pc[c] # "awaitLoad"

\* Call c is the first one that is not in flight: a new initialize() or refresh()
\* is counted as call c.
FreeCall(c) ==
    /\ initCalls.pc[c] = "idle"
    /\ \A j \in CallIds : j < c => initCalls.pc[j] # "idle"

\* initialize() up to `await hyperliquidApi.executeRequest('meta')`
MapInitialize(c) ==
    /\ NoMicrotask
    /\ FreeCall(c)
    /\ initCalls' = [initCalls EXCEPT !.pc[c] = "awaitMeta"]
    /\ UNCHANGED <<mapVars, lastQuery, apiVars, envVars, playVars, wsVars, dashVars, restVars>>

\* refresh(): isLoaded = false, then initialize()
MapRefresh(c) ==
    /\ NoMicrotask
    /\ FreeCall(c)
    /\ isLoaded' = FALSE
    /\ initCalls' = [initCalls EXCEPT !.pc[c] = "awaitMeta"]
    /\ UNCHANGED <<idToNameMap, nameToIdMap, metadata, lastLoadTime, lastQuery,
                   apiVars, envVars, playVars, wsVars, dashVars, restVars>>

\* initialize() from the settling of the meta call to `await this.loadMetadata(response)`,
\* or to the throw of the validation
MapMetaSettle(c, o) ==
    /\ NoMicrotask
    /\ initCalls.pc[c] = "awaitMeta"
    /\ LET response == awaitExecuteRequest(serviceBinding, o)
       IN  IF validMetaResponse(response)
              THEN /\ metadata' = setMetadata(metadata, response)
                   /\ idToNameMap' = loadMetadata(response.data).idToName
                   /\ nameToIdMap' = loadMetadata(response.data).nameToId
                   /\ initCalls' = [pc |-> [initCalls.pc EXCEPT ![c] = "awaitLoad"],
                                    ended |-> initCalls.ended,
                                    outcome |-> o,
                                    prevLen |-> IF metadata = NoMetadata THEN -1
                                                ELSE Len(metadata.universe),
                                    lastValid |-> o,
                                    late |-> IF c = 1 THEN initCalls.late
                                             ELSE initCalls.pc[1] = "awaitMeta"]
              ELSE /\ initCalls' = [initCalls EXCEPT !.pc[c] = "idle", !.ended = "failed",
                                                     !.outcome = o,
                                                     !.late = (c # 1 /\ initCalls.late)]
                   /\ UNCHANGED <<metadata, idToNameMap, nameToIdMap>>
    /\ UNCHANGED <<isLoaded, lastLoadTime, lastQuery, apiVars, envVars, playVars, wsVars, dashVars, restVars>>

\* initialize() after `await this.loadMetadata(response)`
MapFinish(c) ==
    /\ initCalls.pc[c] = "awaitLoad"
    /\ isLoaded' = TRUE
    /\ lastLoadTime' = now
    /\ initCalls' = [initCalls EXCEPT !.pc[c] = "idle", !.ended = "done",
                                      !.late = (c # 1 /\ initCalls.late)]
    /\ UNCHANGED <<idToNameMap, nameToIdMap, metadata, lastQuery,
                   apiVars, envVars, playVars, wsVars, dashVars, restVars>>

\* one of the read-only operations is called
MapQuery(op) ==
    /\ NoMicrotask
    /\ lastQuery' = op
    /\ LET after == queryEffect(op)
       IN  /\ idToNameMap' = after.idToNameMap
           /\ nameToIdMap' = after.nameToIdMap
           /\ metadata' = after.metadata
           /\ isLoaded' = after.isLoaded
           /\ lastLoadTime' = after.lastLoadTime
    /\ UNCHANGED <<initCalls, apiVars, envVars, playVars, wsVars, dashVars, restVars>>

\* time passes
Tick ==
    /\ NoMicrotask
    /\ now < MaxTime
    /\ now' = now + 1
    /\ UNCHANGED <<serviceBinding, mapAll, apiVars, playVars, wsVars, dashVars, restVars>>

(***************************************************************************)
(* SimpleApiPlayground                                                     *)
(***************************************************************************)
NoAwaited == [threw |-> FALSE, wrapper |-> FALSE, success |-> FALSE,
              data |-> PayloadNoUniverse, message |-> <<>>]

\* the `response` state: null, the awaited value, or {error: true, message}
NullResponse        == [kind |-> "null", value |-> NoAwaited, endpoint |-> ""]
DataResponse(r, id) == [kind |-> "data", value |-> r, endpoint |-> id]
ErrorResponse(r, id) == [kind |-> "error", value |-> r, endpoint |-> id]

IdlePlayReq == [pc |-> "idle", endpoint |-> "", outcome |-> NoOutcome]

\* try { data = await ...; setStatus('success'); setResponse(data) }
\* catch { setStatus('error'); setResponse({error, message}) } finally { setLoading(false) }
playSettle(r, id) ==
    IF r.threw
       THEN [play EXCEPT !.status = "error", !.response = ErrorResponse(r, id),
                         !.loading = FALSE]
       ELSE [play EXCEPT !.status = "success", !.response = DataResponse(r, id),
                         !.loading = FALSE]

\* executeRequest() up to the await; the button is disabled while loading
PlayExecuteRequest ==
    /\ ~play.loading
    /\ playReq.pc # "awaiting"
    /\ play' = [play EXCEPT !.loading = TRUE, !.status = "pending", !.response = NullResponse]
    /\ playReq' = [pc |-> "awaiting", endpoint |-> play.selectedEndpoint,
                   outcome |-> NoOutcome]
    /\ UNCHANGED <<apiVars, envVars, mapAll, wsVars, dashVars, restVars>>

\* executeRequest() from the settling of the service call to its end
PlaySettle(o) ==
    /\ playReq.pc = "awaiting"
    /\ play' = playSettle(awaitExecuteRequest(serviceBinding, o), playReq.endpoint)
    /\ playReq' = [playReq EXCEPT !.pc = "settled", !.outcome = o]
    /\ UNCHANGED <<apiVars, envVars, mapAll, wsVars, dashVars, restVars>>

PlayHandleEndpointChange(endpointId) ==
    /\ play' = [play EXCEPT !.selectedEndpoint = endpointId, !.parameters = EmptyMap,
                            !.response = NullResponse, !.status = "idle"]
    /\ UNCHANGED <<playReq, apiVars, envVars, mapAll, wsVars, dashVars, restVars>>

(***************************************************************************)
(* ApiPlayground : the WebSocket handlers                                  *)
(***************************************************************************)
MaxRuns == 2      \* runREST() calls in one run
MaxSockets == 3   \* WebSocket objects constructed in one run
MaxMessages == 1  \* message events delivered to one socket

SockIds == 1..MaxSockets

\* deepReplace(value, map): {{name}} becomes String(map[name]), "" without a value
deepReplaceString(parts, map) ==
    [i \in 1..Len(parts) |->
        IF parts[i].ph
           THEN Lit(IF parts[i].text \in DOMAIN map THEN map[parts[i].text] ELSE "")
           ELSE parts[i]]

RECURSIVE deepReplace(_, _)
deepReplace(value, map) ==
    CASE value.t = "null" -> value
      [] value.t = "str"  -> JStr(deepReplaceString(value.items, map))
      [] value.t = "arr"  ->
            JArr([i \in 1..Len(value.items) |-> deepReplace(value.items[i], map)])
      [] value.t = "obj"  ->
            JObj([i \in 1..Len(value.items) |->
                    KV(value.items[i].key, deepReplace(value.items[i].val, map))])
      [] OTHER -> value

\* JSON.stringify(value), as the sequence of its tokens
RECURSIVE stringify(_)
RECURSIVE stringifyItems(_, _)
stringifyItems(items, isObject) ==
    IF items = <<>> THEN <<>>
    ELSE (IF isObject THEN <<"\"", items[1].key, "\"", ":">> \o stringify(items[1].val)
                      ELSE stringify(items[1]))
         \o (IF Len(items) > 1 THEN <<",">> ELSE <<>>)
         \o stringifyItems(Tail(items), isObject)

stringify(value) ==
    CASE value.t = "null" -> <<"null">>
      [] value.t = "str"  -> <<"\"">> \o [i \in 1..Len(value.items) |-> value.items[i].text]
                                     \o <<"\"">>
      [] value.t = "arr"  -> <<"[">> \o stringifyItems(value.items, FALSE) \o <<"]">>
      [] value.t = "obj"  -> <<"{">> \o stringifyItems(value.items, TRUE) \o <<"}">>
      [] OTHER -> <<value.items[1].text>>

\* the initMessageTemplate of hl-ws-trades
TradesTemplate ==
    JObj(<<KV("method", JStr(<<Lit("subscribe")>>)),
           KV("subscription", JObj(<<KV("type", JStr(<<Lit("trades")>>)),
                                     KV("coin", JStr(<<Ph("coin")>>))>>))>>)

\* The endpoint and params of the render in which openWS is clicked: ENDPOINTS
\* is a configuration list, and an entry of method WS may come with or without
\* an initMessageTemplate (undefined is JNull here).
WsEndpoints ==
    {[id |-> "hl-ws-trades", initMessageTemplate |-> TradesTemplate],
     [id |-> "ws-plain", initMessageTemplate |-> JNull]}
WsParams == {[n \in {"coin"} |-> c] : c \in {"ETH"}}

\* requestPreview.initMsg: deepReplace(endpoint.initMessageTemplate || {}, params)
initMsg(endpoint, params) ==
    deepReplace(IF endpoint.initMessageTemplate.t = "null" THEN JObj(<<>>)
                ELSE endpoint.initMessageTemplate, params)

NoSocket == [state |-> "none", closeRequested |-> FALSE, initMsg |-> JNull,
             opened |-> FALSE, sent |-> <<>>, recorded |-> 0]

\* the raw data of a message event: a JSON text, or a text that is not JSON
WsData == {"{\"channel\":\"trades\"}", "pong"}

\* a close() that leaves the socket delivering: the state stays as it was
SocketCloseStillOpen(sock) == [sock EXCEPT !.closeRequested = TRUE]

\* WebSocket.prototype.close
SocketClose(sock) ==
    [sock EXCEPT !.state = IF sock.state \in {"connecting", "open"} THEN "closing"
                           ELSE sock.state,
                 !.closeRequested = TRUE]

\* openWS without the close of the socket held in wsRef
closePriorSkipped == sockets

\* if (wsRef.current) { wsRef.current.close() }
closePrior ==
    IF wsRef # 0 THEN [sockets EXCEPT ![wsRef] = SocketClose(sockets[wsRef])] ELSE sockets

\* openWS(); its button is rendered while wsOpen is false
OpenWS ==
    /\ ~wsOpen
    /\ \E s \in SockIds, endpoint \in WsEndpoints, params \in WsParams :
          /\ sockets[s].state = "none"
          /\ \A t \in SockIds : t < s => sockets[t].state # "none"
          /\ sockets' = [closePrior EXCEPT ![s] = [NoSocket EXCEPT
                                                     !.state = "connecting",
                                                     !.initMsg = initMsg(endpoint, params)]]
          /\ wsRef' = s
    /\ wsMessages' = <<>>
    /\ wsOpen' = FALSE
    /\ UNCHANGED <<apiVars, envVars, mapAll, playVars, dashVars, restVars>>

\* closeWS(); its button is rendered while wsOpen is true
CloseWS ==
    /\ wsOpen
    /\ sockets' = closePrior
    /\ wsRef' = 0
    /\ UNCHANGED <<wsOpen, wsMessages, apiVars, envVars, mapAll, playVars, dashVars, restVars>>

\* onopen with the test of the message left out: ws.send(msg) in every case
sendInitAlways(sock) == Append(sock.sent, stringify(sock.initMsg))

\* const msg = JSON.stringify(requestPreview.initMsg || {}); if (msg !== "{}") ws.send(msg)
sendInit(sock) ==
    IF stringify(sock.initMsg) # <<"{", "}">>
       THEN Append(sock.sent, stringify(sock.initMsg))
       ELSE sock.sent

\* ws.onopen
WsOnOpen(s) ==
    /\ sockets[s].state = "connecting"
    /\ sockets' = [sockets EXCEPT ![s] = [sockets[s] EXCEPT !.state = "open",
                                                            !.opened = TRUE,
                                                            !.sent = sendInit(sockets[s])]]
    /\ wsOpen' = TRUE
    /\ UNCHANGED <<wsRef, wsMessages, apiVars, envVars, mapAll, playVars, dashVars, restVars>>

\* [data, ...prev].slice(0, 200)
WsKeep == 200

\* the update without the slice: [data, ...prev]
prependMessageUncut(prev, m) == <<m>> \o prev

prependMessage(prev, m) ==
    SubSeq(<<m>> \o prev, 1, IF Len(prev) + 1 < WsKeep THEN Len(prev) + 1 ELSE WsKeep)

\* ws.onmessage: a message event is delivered only while the socket is OPEN;
\* the entry is JSON.parse(ev.data), or ev.data itself when that throws
WsOnMessage(s, data) ==
    /\ sockets[s].state = "open"
    /\ sockets[s].recorded < MaxMessages
    /\ sockets' = [sockets EXCEPT ![s].recorded = @ + 1]
    /\ wsMessages' = prependMessage(wsMessages,
                         [from |-> s, data |-> data, parsed |-> data # "pong"])
    /\ UNCHANGED <<wsRef, wsOpen, apiVars, envVars, mapAll, playVars, dashVars, restVars>>

\* ws.onerror: the connection failed; its close event follows
WsOnError(s) ==
    /\ sockets[s].state \in {"connecting", "open"}
    /\ sockets' = [sockets EXCEPT ![s].state = "closing"]
    /\ wsOpen' = FALSE
    /\ UNCHANGED <<wsRef, wsMessages, apiVars, envVars, mapAll, playVars, dashVars, restVars>>

\* ws.onclose
WsOnClose(s) ==
    /\ sockets[s].state \in {"connecting", "open", "closing"}
    /\ sockets' = [sockets EXCEPT ![s].state = "closed"]
    /\ wsOpen' = FALSE
    /\ UNCHANGED <<wsRef, wsMessages, apiVars, envVars, mapAll, playVars, dashVars, restVars>>

(***************************************************************************)
(* components/BtcDashboard.jsx.  It imports the singleton by name, so      *)
(* every `await hyperliquidApi.executeRequest(id)` resolves to the object  *)
(* built by executeRequest (executeRequestSettle).                         *)
(***************************************************************************)
MaxLoads == 3   \* loadBtcData() runs started in one run

LoadIds == 1..MaxLoads

NoBook   == [load |-> 0, success |-> FALSE]
IdleLoad == [pc |-> "idle", btcId |-> Null, priceSet |-> "none", metaSet |-> Null,
             resolvedAt |-> NoTime]

\* the own properties of the object executeRequest resolves to
WrapperKeys == {"success", "status", "statusText", "data", "timestamp", "error"}

\* allMidsResponse[btcId] on that object
wrapperProperty(key) == IF key \in WrapperKeys THEN "defined" ELSE "undefined"

\* a state setter of a component that is no longer mounted changes nothing
setDash(d) == IF timer.mounted = "yes" THEN d ELSE dash

\* a loadBtcData() that shows the loading screen again: setLoading(true)
StartLoadShowsLoader ==
    \E k \in LoadIds :
        /\ loads[k].pc = "idle"
        /\ \A j \in LoadIds : j < k => loads[j].pc # "idle"
        /\ loads' = [loads EXCEPT ![k].pc = "allMids"]
        /\ dash' = setDash([dash EXCEPT !.error = Null, !.loading = TRUE])

\* loadBtcData() up to `await executeRequest('allMids')`: setError(null)
StartLoad ==
    \E k \in LoadIds :
        /\ loads[k].pc = "idle"
        /\ \A j \in LoadIds : j < k => loads[j].pc # "idle"
        /\ loads' = [loads EXCEPT ![k].pc = "allMids"]
        /\ dash' = setDash([dash EXCEPT !.error = Null])

\* the effect run at mount: loadBtcData(), then setInterval(..., 5000)
DashMount ==
    /\ timer.mounted = "no"
    /\ timer' = [timer EXCEPT !.mounted = "yes", !.interval = TRUE]
    /\ \E k \in LoadIds :
          /\ loads[k].pc = "idle"
          /\ \A j \in LoadIds : j < k => loads[j].pc # "idle"
          /\ loads' = [loads EXCEPT ![k].pc = "allMids"]
          /\ dash' = [dash EXCEPT !.error = Null]
    /\ UNCHANGED <<apiVars, envVars, mapAll, playVars, wsVars, restVars>>

\* the interval fires
DashInterval ==
    /\ timer.interval
    /\ StartLoad
    /\ UNCHANGED <<timer, apiVars, envVars, mapAll, playVars, wsVars, restVars>>

\* the refresh button (onClick={loadBtcData}), shown once loading is false
DashRefreshClick ==
    /\ timer.mounted = "yes"
    /\ ~dash.loading
    /\ StartLoad
    /\ UNCHANGED <<timer, apiVars, envVars, mapAll, playVars, wsVars, restVars>>

\* a cleanup that does not clear the interval
DashUnmountKeepsInterval ==
    /\ timer.mounted = "yes"
    /\ timer' = [timer EXCEPT !.mounted = "gone"]
    /\ UNCHANGED <<dash, loads, apiVars, envVars, mapAll, playVars, wsVars, restVars>>

\* the cleanup of the effect: clearInterval(interval)
DashUnmount ==
    /\ timer.mounted = "yes"
    /\ timer' = [timer EXCEPT !.mounted = "gone", !.interval = FALSE]
    /\ UNCHANGED <<dash, loads, apiVars, envVars, mapAll, playVars, wsVars, restVars>>

\* from the settling of the allMids call to `await executeRequest('meta')`
DashAllMidsSettle(k, o) ==
    /\ loads[k].pc = "allMids"
    /\ LET allMidsResponse == executeRequestSettle(o)
           btcId == getAssetId(N_BTC)
       IN  IF allMidsResponse.state = "resolved" /\ ~btcId.isNull
              THEN /\ dash' = setDash([dash EXCEPT !.btcPrice = wrapperProperty(btcId.v)])
                   /\ loads' = [loads EXCEPT ![k].pc = "meta", ![k].btcId = btcId,
                                             ![k].priceSet = wrapperProperty(btcId.v)]
              ELSE /\ dash' = dash
                   /\ loads' = [loads EXCEPT ![k].pc = "meta", ![k].btcId = btcId]
    /\ UNCHANGED <<timer, apiVars, envVars, mapAll, playVars, wsVars, restVars>>

\* from the settling of the meta call to `await executeRequest('l2Book', ...)`
DashMetaSettle(k, o) ==
    /\ loads[k].pc = "meta"
    /\ executeRequestSettle(o).state = "resolved"
    /\ dash' = setDash([dash EXCEPT !.btcMetadata = getAssetMetadata(loads[k].btcId)])
    /\ loads' = [loads EXCEPT ![k].pc = "l2Book",
                              ![k].metaSet = getAssetMetadata(loads[k].btcId)]
    /\ UNCHANGED <<timer, apiVars, envVars, mapAll, playVars, wsVars, restVars>>

\* the dashboard state after the last part of loadBtcData run by load k,
\* when an earlier-started load is not allowed to overwrite a later one
loadResolveNewestOnly(k, l2BookResponse) ==
    IF dash.orderBook.load > k THEN [dash EXCEPT !.loading = FALSE]
    ELSE [dash EXCEPT !.orderBook = [load |-> k, success |-> l2BookResponse.success],
                      !.lastUpdate = now, !.loading = FALSE]

\* setOrderBook(l2BookResponse); setLastUpdate(new Date()); setLoading(false)
loadResolve(k, l2BookResponse) ==
    [dash EXCEPT !.orderBook = [load |-> k, success |-> l2BookResponse.success],
                 !.lastUpdate = now, !.loading = FALSE]

\* from the settling of the l2Book call to the end of loadBtcData
DashL2BookSettle(k, o) ==
    /\ loads[k].pc = "l2Book"
    /\ dash' = setDash(loadResolve(k, executeRequestSettle(o)))
    /\ loads' = [loads EXCEPT ![k].pc = "done", ![k].resolvedAt = now]
    /\ timer' = [timer EXCEPT !.resolved = Append(timer.resolved, k)]
    /\ UNCHANGED <<apiVars, envVars, mapAll, playVars, wsVars, restVars>>

\* allMids responses handed to the transformations
AllMidsIds == {"0", "1", "5"}
AllMidsResponses ==
    UNION { [D -> {"65432.1", "3456.7"}] : D \in SUBSET AllMidsIds }

(***************************************************************************)
(* utils/parameterUtils.js called on its own, as runQuickTest does         *)
(***************************************************************************)
\* JSON templates: strings with and without placeholders, numbers, booleans,
\* null, and objects and arrays of them, nested
TemplateStrings ==
    { JStr(<<Lit("meta")>>), JStr(<<Ph("coin")>>),
      JStr(<<Lit("coin="), Ph("coin"), Lit("&user="), Ph("user_address")>>) }

Templates ==
    TemplateStrings \cup { JNull, JNum("42"), JBool("true") }
    \cup { JObj(<<KV("type", JStr(<<Lit("test")>>)), KV("user", JStr(<<Ph("user_address")>>)),
                  KV("coin", JStr(<<Ph("coin")>>))>>),
           JArr(<<JStr(<<Ph("coin")>>), JNum("1"), JNull>>),
           JObj(<<KV("type", JStr(<<Lit("candleSnapshot")>>)),
                  KV("req", JObj(<<KV("coin", JStr(<<Ph("coin")>>)),
                                   KV("list", JArr(<<JStr(<<Ph("user_address")>>),
                                                     JObj(<<KV("n", JNum("7")),
                                                            KV("c", JStr(<<Ph("coin")>>))>>)>>))>>))>>),
           JArr(<<JArr(<<JStr(<<Lit("a"), Ph("coin")>>)>>), JBool("false")>>) }

\* parameter maps over the names coin and user_address: absent, null, empty or set
ParameterMaps ==
    { Params(m) : m \in UNION { [D -> {"BTC", "", "0xabc", NullValue}] :
                                   D \in SUBSET {"coin", "user_address"} } }

NoReplaceCall == [called |-> FALSE, template |-> JNull, parameterMap |-> Params(EmptyMap),
                  templateAfter |-> JNull, result |-> JNull]

\* replaceParametersInObject(template, parameterMap): what it returns, and the
\* template after the call (no branch assigns to `value` or to one of its properties)
ReplaceParameters(template, parameterMap) ==
    /\ replaceCall' = [called |-> TRUE, template |-> template, parameterMap |-> parameterMap,
                       templateAfter |-> template,
                       result |-> replaceParametersInObject(template, parameterMap)]
    /\ UNCHANGED <<apiVars, envVars, mapAll, playVars, wsVars, dashVars, formVars, appVars, bootVars, runRestVars>>

(***************************************************************************)
(* ApiPlayground : the form kept in localStorage (useLocalState)           *)
(***************************************************************************)
\* three of the ENDPOINTS: without parameters, with a select that has a default,
\* with a text field and a checkbox
FormEndpointIds == {"hl-allMids", "hl-ws-trades", "hl-userFills"}
FirstEndpointId == "hl-allMids"

\* initialParams: the default of each parameter, false for a boolean, "" otherwise
initialParams(id) ==
    CASE id = "hl-ws-trades" -> [n \in {"coin"} |-> "BTC"]
      [] id = "hl-userFills" -> [n \in {"user", "aggregateByTime"} |->
                                    IF n = "user" THEN "" ELSE "true"]
      [] OTHER -> EmptyMap

\* what the inputs of the form can set a parameter to
FormValues(name) ==
    CASE name = "coin" -> {"BTC", "ETH"}
      [] name = "user" -> {"", "0xabc"}
      [] OTHER -> {"true", "false"}

\* localStorage.getItem(key): null, or the JSON text of a value
NoItem == [stored |-> FALSE, id |-> "", params |-> EmptyMap]
IdItem(id) == [stored |-> TRUE, id |-> id, params |-> EmptyMap]
ParamsItem(params) == [stored |-> TRUE, id |-> "", params |-> params]

\* useState(() => raw ? JSON.parse(raw) : initial)
storedOr(item, initial) == IF item.stored THEN item ELSE initial

\* ENDPOINTS.find((e) => e.id === currentId) || ENDPOINTS[0]
endpointOf(currentId) == IF currentId \in FormEndpointIds THEN currentId ELSE FirstEndpointId

NoForm == [mounted |-> FALSE, currentId |-> "", params |-> EmptyMap,
           reloaded |-> FALSE, touched |-> FALSE, shownId |-> "", shownParams |-> EmptyMap]

\* The effects that follow a render in which the endpoint is (or becomes) `id`
\* while the params state holds `params`: both useLocalState effects write their
\* value, the reset effect calls setParams(initialParams), and the render that
\* follows writes the params again.
effectsAfterEndpoint(id, params) ==
    [params |-> initialParams(endpointOf(id)),
     storage |-> [storage EXCEPT !.endpoint = IdItem(id),
                                 !.params[endpointOf(id)] =
                                     ParamsItem(initialParams(endpointOf(id)))]]

\* the component mounts (first visit, or a page reload)
FormMount ==
    /\ ~form.mounted
    /\ LET currentId == storedOr(storage.endpoint, IdItem(FirstEndpointId)).id
           params == storedOr(storage.params[endpointOf(currentId)],
                              ParamsItem(initialParams(endpointOf(currentId)))).params
           after == effectsAfterEndpoint(currentId, params)
       IN  /\ form' = [form EXCEPT !.mounted = TRUE, !.currentId = currentId,
                                   !.params = after.params, !.touched = FALSE]
           /\ storage' = after.storage
    /\ UNCHANGED <<apiVars, envVars, mapAll, playVars, wsVars, dashVars, utilVars, appVars, bootVars, runRestVars>>

\* the endpoint select: setCurrentId(e.target.value)
FormSetCurrentId(id) ==
    /\ form.mounted
    /\ id # form.currentId
    /\ LET after == effectsAfterEndpoint(id, form.params)
       IN  /\ form' = [form EXCEPT !.currentId = id, !.params = after.params, !.touched = TRUE]
           /\ storage' = after.storage
    /\ UNCHANGED <<apiVars, envVars, mapAll, playVars, wsVars, dashVars, utilVars, appVars, bootVars, runRestVars>>

\* a parameter input: setParams({ ...params, [p.name]: value }), then the effect
\* of useLocalState writes the params under the key of the endpoint
FormSetParam(name, value) ==
    /\ form.mounted
    /\ name \in DOMAIN initialParams(endpointOf(form.currentId))
    /\ value \in FormValues(name)
    /\ form.params[name] # value
    /\ form' = [form EXCEPT !.params = MapSet(form.params, name, value), !.touched = TRUE]
    /\ storage' = [storage EXCEPT !.params[endpointOf(form.currentId)] =
                                      ParamsItem(MapSet(form.params, name, value))]
    /\ UNCHANGED <<apiVars, envVars, mapAll, playVars, wsVars, dashVars, utilVars, appVars, bootVars, runRestVars>>

\* the page is left or reloaded: the React state is gone, localStorage stays
FormUnmount ==
    /\ form.mounted
    /\ form' = [NoForm EXCEPT !.reloaded = TRUE, !.shownId = form.currentId,
                              !.shownParams = form.params]
    /\ UNCHANGED <<storage, apiVars, envVars, mapAll, playVars, wsVars, dashVars, utilVars, appVars, bootVars, runRestVars>>

(***************************************************************************)
(* src/App.jsx : sendRequest and fetchAndListMarkets                       *)
(***************************************************************************)
AppEndpointIds == {"allMids", "meta", "metaPerp", "metaSpot", "l2Book"}
Kinds == {"perp", "spot"}

\* A parsed body as fetchAndListMarkets reads it: data.universe (or
\* data.meta.universe) as the names of the assets, data.assetCtxs (or
\* data.ctxs) as the type of each context; both are absent from a body that
\* is an array or has other keys.
AppData(universe, ctxs) == [universe |-> universe, ctxs |-> ctxs]
AppDatas ==
    { AppData(<<>>, <<>>),
      AppData(<<"ETH", "BTC">>, <<"perp", "spot">>),
      AppData(<<"ETH", "BTC">>, <<"perp", "perp">>),
      AppData(<<"ETH", "BTC">>, <<"perp">>) }

\* how a fetch and the res.json() that follows can end
AppOutcomes ==
    { [kind |-> "reject", message |-> MsgFailedToFetch, data |-> AppData(<<>>, <<>>)],
      [kind |-> "badJson", message |-> MsgJsonSyntax, data |-> AppData(<<>>, <<>>)] }
    \cup { [kind |-> "json", message |-> <<>>, data |-> d] : d \in AppDatas }

NoAppOutcome == [kind |-> "none", message |-> <<>>, data |-> AppData(<<>>, <<>>)]

\* the values of the response state
AppNoResponse == [t |-> "null", by |-> "", kind |-> "", count |-> 0, markets |-> <<>>,
               data |-> AppData(<<>>, <<>>), message |-> <<>>]
AppDataResponse(by, data) == [AppNoResponse EXCEPT !.t = "data", !.by = by, !.data = data]
AppErrorResponse(by, message) == [AppNoResponse EXCEPT !.t = "error", !.by = by, !.message = message]
AppMarketsResponse(kind, markets) ==
    [AppNoResponse EXCEPT !.t = "markets", !.by = "list", !.kind = kind,
                          !.count = Len(markets), !.markets = markets]
AppRawResponse(data) == [AppNoResponse EXCEPT !.t = "raw", !.by = "list", !.data = data]

\* universe.map(...).filter(ctx is of the kind).map(asset.name)
RECURSIVE marketsOfKind(_, _, _)
marketsOfKind(universe, ctxs, kind) ==
    IF universe = <<>> THEN <<>>
    ELSE (IF ctxs[1] = kind THEN <<universe[1]>> ELSE <<>>)
         \o marketsOfKind(Tail(universe), Tail(ctxs), kind)

\* a.localeCompare(b) < 0 on the names used here
LocaleBefore(a, b) == a = "BTC" /\ b = "ETH"

\* Array.prototype.sort((a, b) => a.localeCompare(b))
RECURSIVE sortNames(_)
sortNames(names) ==
    IF Len(names) <= 1 THEN names
    ELSE LET rest == sortNames(Tail(names))
             before == SelectSeq(rest, LAMBDA x : LocaleBefore(x, names[1]))
             after == SelectSeq(rest, LAMBDA x : ~LocaleBefore(x, names[1]))
         IN  before \o <<names[1]>> \o after

\* the try / catch of sendRequest
sendResult(outcome) ==
    IF outcome.kind = "json" THEN AppDataResponse("send", outcome.data)
    ELSE AppErrorResponse("send", outcome.message)

\* the try / catch of fetchAndListMarkets(kind)
listResult(kind, outcome) ==
    IF outcome.kind # "json" THEN AppErrorResponse("list", outcome.message)
    ELSE LET data == outcome.data
             results == IF Len(data.universe) = Len(data.ctxs)
                           THEN sortNames(marketsOfKind(data.universe, data.ctxs, kind))
                           ELSE <<>>
         IN  IF Len(results) > 0 THEN AppMarketsResponse(kind, results)
             ELSE AppRawResponse(data)

\* setResponse that keeps a response already shown
setResponseKeepFirst(prev, next) == IF prev.t = "null" THEN next ELSE prev

\* setResponse(next)
setResponse(prev, next) == next

\* <select onChange>: setSelectedEndpoint
AppSelect(id) ==
    /\ id # app.selectedEndpoint
    /\ app' = [app EXCEPT !.selectedEndpoint = id]
    /\ UNCHANGED <<apiVars, envVars, mapAll, playVars, wsVars, dashVars, utilVars, formVars, bootVars, runRestVars>>

\* the Envoyer button (disabled while loading): sendRequest up to its await
AppSendRequest ==
    /\ ~app.loading
    /\ app' = [app EXCEPT !.loading = TRUE, !.response = AppNoResponse,
                          !.sending = app.selectedEndpoint,
                          !.overlap = (app.listing # "")]
    /\ UNCHANGED <<apiVars, envVars, mapAll, playVars, wsVars, dashVars, utilVars, formVars, bootVars, runRestVars>>

\* sendRequest resumes after fetch / res.json(): try, catch and finally
AppSendSettle(outcome) ==
    /\ app.sending # ""
    /\ app' = [app EXCEPT !.response = setResponse(app.response, sendResult(outcome)),
                          !.loading = FALSE, !.sending = "",
                          !.lastBy = "send", !.lastOutcome = outcome]
    /\ UNCHANGED <<apiVars, envVars, mapAll, playVars, wsVars, dashVars, utilVars, formVars, bootVars, runRestVars>>

\* the PERP / SPOT buttons (disabled while listLoading)
AppFetchAndListMarkets(kind) ==
    /\ ~app.listLoading
    /\ app' = [app EXCEPT !.listLoading = TRUE, !.response = AppNoResponse,
                          !.listing = kind,
                          !.overlap = (app.sending # "")]
    /\ UNCHANGED <<apiVars, envVars, mapAll, playVars, wsVars, dashVars, utilVars, formVars, bootVars, runRestVars>>

\* fetchAndListMarkets resumes after fetch / res.json(): try, catch and finally
AppListSettle(outcome) ==
    /\ app.listing # ""
    /\ app' = [app EXCEPT !.response = setResponse(app.response,
                                                  listResult(app.listing, outcome)),
                          !.listLoading = FALSE, !.listing = "",
                          !.lastBy = "list", !.lastKind = app.listing,
                          !.lastOutcome = outcome]
    /\ UNCHANGED <<apiVars, envVars, mapAll, playVars, wsVars, dashVars, utilVars, formVars, bootVars, runRestVars>>

(***************************************************************************)
(* App (the component that renders SimpleApiPlayground) : initializeApp    *)
(***************************************************************************)
MsgInvalidFormat ==
    <<"F","o","r","m","a","t"," ","d","e"," ","r","e","p","o","n","s","e"," ",
      "i","n","v","a","l","i","d","e">>

\* the message of the error that initialize() throws for the answer r of its meta call
initializeError(r) == IF r.threw THEN r.message ELSE MsgInvalidFormat

\* the values of initError: null, or a message
NoInitError == [isNull |-> TRUE, message |-> <<>>]

\* setInitError that drops the error
setInitErrorDropped(message) == NoInitError

\* setInitError(error.message)
setInitError(message) == [isNull |-> FALSE, message |-> message]

NoBoot == [mounted |-> FALSE, pc |-> "none", isInitializing |-> TRUE,
           initError |-> NoInitError, connectionOk |-> FALSE]

\* what App renders: the three return statements
Screen ==
    IF boot.isInitializing THEN "loader"
    ELSE IF ~boot.initError.isNull /\ boot.initError.message # <<>> THEN "error"
    ELSE "playground"

\* the effect of the mount: initializeApp() up to the fetch of assetMapping.initialize()
BootMount ==
    /\ ~boot.mounted
    /\ boot' = [boot EXCEPT !.mounted = TRUE, !.pc = "awaitInit"]
    /\ initCalls' = [initCalls EXCEPT !.pc[1] = "awaitMeta"]
    /\ UNCHANGED <<mapVars, lastQuery, apiVars, envVars, playVars, wsVars, dashVars,
                   utilVars, formVars, appVars, runRestVars>>

\* `await assetMapping.initialize()` returns, and runQuickTest() runs up to the fetch
\* of testApiConnection(); or it throws, and the catch block runs
BootInitSettled ==
    /\ boot.pc = "awaitInit"
    /\ initCalls.pc[1] = "idle"
    /\ boot' = IF initCalls.ended = "failed"
                  THEN [boot EXCEPT !.pc = "done", !.isInitializing = FALSE,
                           !.initError = setInitError(initializeError(
                               awaitExecuteRequest(serviceBinding, initCalls.outcome)))]
                  ELSE [boot EXCEPT !.pc = "awaitConnection"]
    /\ UNCHANGED <<mapAll, apiVars, envVars, playVars, wsVars, dashVars,
                   utilVars, formVars, appVars, runRestVars>>

\* runQuickTest: testApiConnection() returns result.success; with a connection the
\* allMids request is sent, without one runQuickTest returns and
\* setIsInitializing(false) runs
BootConnectionSettle(o) ==
    /\ boot.pc = "awaitConnection"
    /\ boot' = IF executeRequestSettle(o).success
                  THEN [boot EXCEPT !.pc = "awaitAllMids", !.connectionOk = TRUE]
                  ELSE [boot EXCEPT !.pc = "done", !.isInitializing = FALSE]
    /\ UNCHANGED <<mapAll, apiVars, envVars, playVars, wsVars, dashVars,
                   utilVars, formVars, appVars, runRestVars>>

\* runQuickTest: the allMids request settles (its result is only logged), then
\* setIsInitializing(false)
BootAllMidsSettle(o) ==
    /\ boot.pc = "awaitAllMids"
    /\ boot' = [boot EXCEPT !.pc = "done", !.isInitializing = FALSE]
    /\ UNCHANGED <<mapAll, apiVars, envVars, playVars, wsVars, dashVars,
                   utilVars, formVars, appVars, runRestVars>>

(***************************************************************************)
(* ApiPlayground : runREST                                                 *)
(***************************************************************************)
\* the `status` state: "idle", "pending", `HTTP ${res.status}` or "error"
StatusIdle       == [kind |-> "idle", code |-> 0]
StatusPending    == [kind |-> "pending", code |-> 0]
StatusHttp(code) == [kind |-> "HTTP", code |-> code]
StatusError      == [kind |-> "error", code |-> 0]

\* the `response` state: null, the parsed JSON body, the body text, or {error: message}
RestNull           == [kind |-> "null", data |-> PayloadNoUniverse, text |-> <<>>, message |-> <<>>]
RestJson(d)        == [kind |-> "json", data |-> d, text |-> <<>>, message |-> <<>>]
RestText(t)        == [kind |-> "text", data |-> PayloadNoUniverse, text |-> t, message |-> <<>>]
RestError(message) == [kind |-> "error", data |-> PayloadNoUniverse, text |-> <<>>,
                       message |-> message]

\* e?.message || String(e)
errorText(message) == IF message # <<>> THEN message ELSE <<"E","r","r","o","r">>

NoRun == [loading |-> FALSE, status |-> StatusIdle, response |-> RestNull, durationMs |-> 0,
          pc |-> "idle", t0 |-> 0, outcome |-> NoOutcome, runs |-> 0]

\* a catch block that reports the error and leaves the status alone
runRESTCatchKeepsStatus(run, e) ==
    [run EXCEPT !.response = RestError(errorText(e))]

\* catch (e) { setStatus("error"); setResponse({ error: e?.message || String(e) }) }
runRESTCatch(run, e) ==
    [run EXCEPT !.status = StatusError, !.response = RestError(errorText(e))]

\* the try block from the settling of fetch(): the body is read as JSON when the
\* content type says so and as text otherwise, then setStatus and setResponse
runRESTTry(run, o) ==
    IF o.kind = "reject"
       THEN runRESTCatch(run, o.message)
       ELSE IF o.contentJson
               THEN IF o.jsonOk
                       THEN [run EXCEPT !.status = StatusHttp(o.status),
                                        !.response = RestJson(o.data)]
                       ELSE runRESTCatch(run, MsgJsonSyntax)
               ELSE [run EXCEPT !.status = StatusHttp(o.status),
                                !.response = RestText(o.bodyText)]

\* finally { setDurationMs(Math.round(performance.now() - t0)); setLoading(false) }
runRESTFinally(run, t) ==
    [run EXCEPT !.durationMs = t - run.t0, !.loading = FALSE]

\* runREST() up to `await fetch(...)`; the Run button is disabled while loading
RunREST ==
    /\ ~runRest.loading
    /\ runRest.runs < MaxRuns
    /\ runRest' = [runRest EXCEPT !.loading = TRUE, !.status = StatusPending,
                                  !.response = RestNull, !.pc = "awaiting", !.t0 = now,
                                  !.outcome = NoOutcome, !.runs = @ + 1]
    /\ UNCHANGED <<apiVars, envVars, mapAll, playVars, wsVars, dashVars,
                   utilVars, formVars, appVars, bootVars>>

\* runREST() from the settling of fetch() to its end
RunRESTSettle(o) ==
    /\ runRest.pc = "awaiting"
    /\ runRest' = [runRESTFinally(runRESTTry(runRest, o), now) EXCEPT
                       !.pc = "settled", !.outcome = o]
    /\ UNCHANGED <<apiVars, envVars, mapAll, playVars, wsVars, dashVars,
                   utilVars, formVars, appVars, bootVars>>

(***************************************************************************)
(* Initial states                                                          *)
(***************************************************************************)
ApiInit == apiCall = IdleCall

MapInit ==
    /\ idToNameMap = EmptyMaps.idToName
    /\ nameToIdMap = EmptyMaps.nameToId
    /\ isLoaded = FALSE
    /\ metadata = NoMetadata
    /\ lastLoadTime = NoTime
    /\ initCalls = IdleInit
    /\ lastQuery = "none"

\* the mapping as a completed initialize() over `payload` leaves it
MapLoadedInit(payload) ==
    /\ idToNameMap = loadMetadata(payload).idToName
    /\ nameToIdMap = loadMetadata(payload).nameToId
    /\ isLoaded = TRUE
    /\ metadata = payload
    /\ lastLoadTime = 0
    /\ initCalls = IdleInit
    /\ lastQuery = "none"

PlayInit ==
    /\ play = [selectedEndpoint |-> "allMids", parameters |-> EmptyMap,
               response |-> NullResponse, loading |-> FALSE, status |-> "idle"]
    /\ playReq = IdlePlayReq

WsInit ==
    /\ wsRef = 0
    /\ sockets = [s \in SockIds |-> NoSocket]
    /\ wsOpen = FALSE
    /\ wsMessages = <<>>

\* the i-th entry of a list of messages that socket 1 delivered
FilledEntry(i) ==
    [from |-> 1, data |-> IF i % 2 = 0 THEN "pong" ELSE "{\"channel\":\"trades\"}",
     parsed |-> i % 2 # 0]

\* The connection of a plain endpoint (no init message) is open and has delivered
\* WsKeep - 1 or WsKeep messages; `recorded` counts the message events from here on.
WsFilledInit ==
    /\ wsRef = 1
    /\ sockets = [s \in SockIds |->
                     IF s = 1 THEN [NoSocket EXCEPT !.state = "open", !.opened = TRUE,
                                                    !.initMsg = JObj(<<>>)]
                     ELSE NoSocket]
    /\ wsOpen = TRUE
    /\ \E n \in {WsKeep - 1, WsKeep} : wsMessages = [i \in 1..n |-> FilledEntry(i)]

DashInit ==
    /\ dash = [btcPrice |-> "null", btcMetadata |-> Null, orderBook |-> NoBook,
               loading |-> TRUE, error |-> Null, lastUpdate |-> NoTime]
    /\ loads = [k \in LoadIds |-> IdleLoad]
    /\ timer = [mounted |-> "no", interval |-> FALSE, resolved |-> <<>>]

UtilInit == replaceCall = NoReplaceCall

BootInit == boot = NoBoot

RunRestInit == runRest = NoRun

AppInit ==
    app = [selectedEndpoint |-> "allMids", response |-> AppNoResponse, loading |-> FALSE,
           listLoading |-> FALSE, sending |-> "", listing |-> "", overlap |-> FALSE,
           lastBy |-> "", lastKind |-> "", lastOutcome |-> NoAppOutcome]

FormInit ==
    /\ form = NoForm
    /\ storage = [endpoint |-> NoItem, params |-> [id \in FormEndpointIds |-> NoItem]]

Init ==
    /\ serviceBinding \in Bindings
    /\ now = 0
    /\ ApiInit /\ MapInit /\ PlayInit /\ WsInit /\ DashInit /\ UtilInit /\ FormInit /\ AppInit /\ BootInit
    /\ RunRestInit

(***************************************************************************)
(* Next-state relations, one per part of the program                       *)
(***************************************************************************)
NextApi ==
    \/ \E e \in EndpointArgs, p \in ParamArgs : ApiExecuteRequest(e, p)
    \/ \E o \in FetchOutcomes(ApiPayloads) : ApiFetchSettle(o)

NextRest ==
    \/ RunREST
    \/ \E o \in FetchOutcomes(ApiPayloads) : RunRESTSettle(o)
    \/ Tick

NextUtil ==
    \E t \in Templates, m \in ParameterMaps : ReplaceParameters(t, m)

NextApp ==
    \/ \E id \in AppEndpointIds : AppSelect(id)
    \/ AppSendRequest
    \/ \E o \in AppOutcomes : AppSendSettle(o)
    \/ \E kind \in Kinds : AppFetchAndListMarkets(kind)
    \/ \E o \in AppOutcomes : AppListSettle(o)

NextBoot ==
    \/ BootMount
    \/ \E o \in MetaOutcomes : MapMetaSettle(1, o)
    \/ MapFinish(1)
    \/ BootInitSettled
    \/ \E o \in FetchOutcomes(ApiPayloads) : BootConnectionSettle(o)
    \/ \E o \in FetchOutcomes(ApiPayloads) : BootAllMidsSettle(o)
    \/ Tick

NextForm ==
    \/ FormMount
    \/ \E id \in FormEndpointIds : FormSetCurrentId(id)
    \/ \E name \in {"coin", "user", "aggregateByTime"}, value \in {"BTC", "ETH", "", "0xabc", "true", "false"} :
          FormSetParam(name, value)
    \/ FormUnmount

NextMap ==
    \/ \E c \in CallIds : MapInitialize(c)
    \/ \E c \in CallIds : MapRefresh(c)
    \/ \E c \in CallIds, o \in MetaOutcomes : MapMetaSettle(c, o)
    \/ \E c \in CallIds : MapFinish(c)
    \/ Tick

NextMapQuery ==
    \/ \E c \in QueryCallIds : MapInitialize(c)
    \/ \E c \in QueryCallIds : MapRefresh(c)
    \/ \E c \in QueryCallIds, o \in MetaOutcomes : MapMetaSettle(c, o)
    \/ \E c \in QueryCallIds : MapFinish(c)
    \/ \E op \in QueryOps : MapQuery(op)

NextPlay ==
    \/ PlayExecuteRequest
    \/ \E o \in FetchOutcomes(ApiPayloads) : PlaySettle(o)
    \/ \E id \in EndpointIds : PlayHandleEndpointChange(id)

NextWS ==
    \/ OpenWS
    \/ CloseWS
    \/ \E s \in SockIds : WsOnOpen(s)
    \/ \E s \in SockIds, data \in WsData : WsOnMessage(s, data)
    \/ \E s \in SockIds : WsOnError(s)
    \/ \E s \in SockIds : WsOnClose(s)

NextDash ==
    \/ DashMount
    \/ DashInterval
    \/ DashRefreshClick
    \/ DashUnmount
    \/ \E k \in LoadIds, o \in FetchOutcomes(ApiPayloads) : DashAllMidsSettle(k, o)
    \/ \E k \in LoadIds, o \in FetchOutcomes(ApiPayloads) : DashMetaSettle(k, o)
    \/ \E k \in LoadIds, o \in FetchOutcomes(ApiPayloads) : DashL2BookSettle(k, o)
    \/ Tick

Next == NextApi \/ NextRest \/ NextUtil \/ NextForm \/ NextApp \/ NextBoot \/ NextMap \/ NextMapQuery \/ NextPlay \/ NextWS \/ NextDash

Spec == Init /\ [][Next]_vars

\* the API service alone
InitApi == Init /\ serviceBinding = "instance"
SpecApi == InitApi /\ [][NextApi]_vars

\* The App component from its mount on.  Every fetch settles in the end, and a
\* continuation that can run does run.
SpecBoot ==
    /\ Init
    /\ [][NextBoot]_vars
    /\ WF_vars(\E o \in MetaOutcomes : MapMetaSettle(1, o))
    /\ WF_vars(MapFinish(1))
    /\ WF_vars(BootInitSettled)
    /\ WF_vars(\E o \in FetchOutcomes(ApiPayloads) : BootConnectionSettle(o))
    /\ WF_vars(\E o \in FetchOutcomes(ApiPayloads) : BootAllMidsSettle(o))

\* ApiPlayground's REST runs alone
SpecRest == InitApi /\ [][NextRest]_vars

\* src/App.jsx alone
SpecApp == InitApi /\ [][NextApp]_vars

\* the form of ApiPlayground and localStorage alone
SpecForm == InitApi /\ [][NextForm]_vars

\* the parameter utilities alone
SpecUtil == InitApi /\ [][NextUtil]_vars

\* the asset mapping service alone: its initialize()/refresh() calls as time passes
SpecMap == Init /\ [][NextMap]_vars

\* the asset mapping service alone: its initialize()/refresh() calls and its lookups
SpecMapQuery == Init /\ [][NextMapQuery]_vars

\* SimpleApiPlayground alone
SpecPlay == Init /\ [][NextPlay]_vars

\* the WebSocket part of ApiPlayground alone
SpecWS == InitApi /\ [][NextWS]_vars

\* the WebSocket part from a connection that has filled the message list
InitWSFilled ==
    /\ serviceBinding = "instance"
    /\ now = 0
    /\ ApiInit /\ MapInit /\ PlayInit /\ WsFilledInit /\ DashInit /\ UtilInit /\ FormInit
    /\ AppInit /\ BootInit /\ RunRestInit
SpecWSFilled == InitWSFilled /\ [][NextWS]_vars

\* BtcDashboard alone, over a mapping that is not loaded or was loaded before the mount
InitDash ==
    /\ serviceBinding \in Bindings
    /\ now = 0
    /\ ApiInit /\ PlayInit /\ WsInit /\ DashInit /\ UtilInit /\ FormInit /\ AppInit /\ BootInit
    /\ RunRestInit
    /\ \/ MapInit
       \/ /\ serviceBinding = "passthrough"
          /\ \E u \in { <<Asset(N_BTC)>>, <<Asset(N_ETH), Asset(N_BTC)>>, <<Asset(N_ETH)>> } :
             MapLoadedInit(MetaPayload(u))
SpecDash == InitDash /\ [][NextDash]_vars

(***************************************************************************)
(* Properties                                                              *)
(***************************************************************************)

\* the loadBtcData run that reached its end last
LastResolved == timer.resolved[Len(timer.resolved)]

\* C1: BtcDashboard starts a load at mount and at every timer tick without
\* waiting for earlier loads; overlapping loads all run to their end, and the
\* displayed price, metadata, order book, error and last-update time are
\* those of the load that resolved last.
C1_LastResolvedLoadWins ==
    /\ (timer.interval /\ \E k \in LoadIds : loads[k].pc = "idle") => ENABLED DashInterval
    /\ (timer.mounted = "yes" /\ timer.resolved # <<>>) =>
          LET k == LastResolved
          IN  /\ loads[k].pc = "done"
              /\ dash.orderBook.load = k
              /\ dash.lastUpdate = loads[k].resolvedAt
              /\ dash.btcMetadata = loads[k].metaSet
              /\ dash.btcPrice = IF loads[k].priceSet = "none" THEN "null"
                                                                 ELSE loads[k].priceSet
              /\ dash.error = Null
              /\ ~dash.loading

\* two loads overlapped and the one started first resolved last
C1_OverlapWitness ==
    /\ timer.mounted = "yes"
    /\ timer.resolved = <<2, 1>>
    /\ dash.orderBook.load = 1
    /\ loads[1].pc = "done" /\ loads[2].pc = "done"

\* the WebSocket objects constructed so far on which close() was never called
Unclosed == { s \in SockIds : sockets[s].state # "none" /\ ~sockets[s].closeRequested }

\* C2: after any sequence of openWS and closeWS calls at most one WebSocket
\* created by the component has not had close() requested on it, and that one
\* is the socket held in wsRef.
C2_AtMostOneUnclosedSocket ==
    /\ Cardinality(Unclosed) <= 1
    /\ Unclosed = IF wsRef = 0 THEN {} ELSE {wsRef}

\* openWS was called twice while a socket was held: the two earlier sockets were
\* closed and the third is the one held
C2_ReopenWitness ==
    /\ sockets[1].closeRequested
    /\ sockets[2].closeRequested
    /\ sockets[3].state # "none" /\ ~sockets[3].closeRequested
    /\ wsRef = 3

\* the keys "0" .. "n-1"
IndexKeys(n) == { String(i) : i \in 0..(n - 1) }

\* both maps hold the assets of `universe` and nothing else
MapsMatch(universe) ==
    /\ DOMAIN idToNameMap = IndexKeys(Len(universe))
    /\ \A i \in 0..(Len(universe) - 1) : idToNameMap[String(i)] = universe[i + 1].name
    /\ DOMAIN nameToIdMap = { universe[i].name : i \in 1..Len(universe) }
    /\ \A x \in DOMAIN nameToIdMap :
          \E i \in 0..(Len(universe) - 1) :
              nameToIdMap[x] = String(i) /\ universe[i + 1].name = x

DistinctNames(universe) ==
    \A i, j \in 1..Len(universe) : universe[i].name = universe[j].name => i = j

\* getAssetId(getAssetName(id)) and getAssetName(getAssetId(name)); a null name
\* has no toUpperCase
idOfNameOf(id) ==
    LET name == getAssetName(Value(id))
    IN  IF name.isNull THEN Null ELSE getAssetId(name.v)
nameOfIdOf(name) == getAssetName(getAssetId(name))

GoodMeta(o) ==
    /\ o.kind = "response"
    /\ ResponseOk(o.status)
    /\ o.contentJson /\ o.jsonOk
    /\ o.data.universeKind = "array"

\* C6: when the meta call succeeds and the payload holds a universe array,
\* initialize() does not throw, sets isLoaded and lastLoadTime, and the lookups
\* return the loaded names; it throws only when the call fails or the payload
\* has no universe array.
C6_InitializeLoadsGoodPayload ==
    [][\A c \in CallIds :
          /\ (initCalls.pc[c] = "awaitMeta" /\ initCalls'.pc[c] # "awaitMeta") =>
                (initCalls'.ended = "failed" /\ initCalls'.pc[c] = "idle"
                    <=> ~GoodMeta(initCalls'.outcome))
          /\ (initCalls.pc[c] = "awaitLoad" /\ initCalls'.pc[c] = "idle") =>
                /\ isLoaded' /\ lastLoadTime' = now
                /\ MapsMatch(initCalls.outcome.data.universe)']_vars

\* the fetch of the playground's request failed: a network failure or a non-2xx status
FetchFailed(o) == o.kind = "reject" \/ (o.kind = "response" /\ ~ResponseOk(o.status))

\* the request succeeded: a 2xx response whose body could be read
FetchSucceeded(o) ==
    o.kind = "response" /\ ResponseOk(o.status) /\ (o.contentJson => o.jsonOk)

\* C7: when a request executed from SimpleApiPlayground fails, the playground
\* ends with status 'error' and displays the error message; status 'success'
\* is reached only for a request that succeeded.
C7_FailureShowsError ==
    (playReq.pc = "settled" /\ play.status # "idle") =>
        /\ FetchFailed(playReq.outcome) =>
              (play.status = "error" /\ play.response.kind = "error")
        /\ play.status = "success" => FetchSucceeded(playReq.outcome)

\* the two shapes executeRequest resolves to
ErrorTypes == {"network", "client", "server", "parsing", "unknown"}
ResultShape(r) ==
    /\ r.state = "resolved"
    /\ r.success => (r.type = "" /\ r.message = <<>> /\ ResponseOk(r.status))
    /\ ~r.success => r.type \in ErrorTypes

\* C8 (as stated): executeRequest never rejects: for every endpoint argument and
\* every outcome of the fetch it resolves to {success: true, status, data} or to
\* {success: false, error: {message, type, details}}, after at most one fetch.
C8_NeverRejects ==
    /\ apiCall.fetches <= 1
    /\ apiCall.phase = "settled" => ResultShape(apiCall.result)

\* C8 (amended): the same for every endpoint argument that is not null or
\* undefined, whatever the fetch does.
C8_NeverRejectsNonNullEndpoint ==
    /\ apiCall.fetches <= 1
    /\ (apiCall.phase = "settled" /\ apiCall.endpoint.kind # "null") =>
          /\ ResultShape(apiCall.result)
          /\ apiCall.outcome.kind = "none" => apiCall.fetches = 0
          /\ apiCall.outcome.kind # "none" =>
                /\ apiCall.fetches = 1
                /\ apiCall.result.success =>
                      (FetchSucceeded(apiCall.outcome)
                          /\ apiCall.result.status = apiCall.outcome.status)

\* a call whose fetch rejected resolved to the failure object
C8_FailureObjectWitness ==
    /\ apiCall.phase = "settled"
    /\ apiCall.endpoint.kind = "object"
    /\ apiCall.outcome.kind = "reject"
    /\ apiCall.result.state = "resolved"
    /\ ~apiCall.result.success
    /\ apiCall.fetches = 1

\* the cause of a failed call, from what its fetch answered
FailureCause(o) ==
    CASE o.kind = "reject" -> "network"
      [] o.kind = "response" /\ o.status \in 400..499 -> "client"
      [] o.kind = "response" /\ o.status \in 500..599 -> "server"
      [] o.kind = "response" /\ ResponseOk(o.status) /\ o.contentJson /\ ~o.jsonOk -> "parsing"
      [] OTHER -> "unknown"

\* C9: the classification puts every failure in the bucket of its cause: a
\* network failure is 'network', a non-OK 4xx response 'client', a non-OK 5xx
\* response 'server', a JSON parsing failure 'parsing', anything else 'unknown'.
C9_BucketMatchesCause ==
    (apiCall.phase = "settled" /\ apiCall.result.state = "resolved"
                               /\ ~apiCall.result.success) =>
        apiCall.result.type = FailureCause(apiCall.outcome)

\* C10: an executeRequest call for an endpoint with a required parameter that
\* is missing or empty does not reach the network.
C10_ValidatesBeforeSending ==
    (apiCall.endpoint.kind = "object" /\ apiCall.fetches > 0) =>
        validateParametersMissing(EndpointParams(apiCall.endpoint.id),
                                  apiCall.parameters) = {}

\* `result` is `template` with the placeholders that have a value replaced
RECURSIVE ReplacedIn(_, _, _)
ReplacedIn(template, result, parameterMap) ==
    CASE template.t = "str" ->
            /\ result.t = "str"
            /\ Len(result.items) = Len(template.items)
            /\ \A i \in 1..Len(template.items) :
                  LET part == template.items[i]
                      has  == /\ part.ph
                              /\ part.text \in DOMAIN parameterMap.map
                              /\ parameterMap.map[part.text] # NullValue
                  IN  result.items[i] = IF has THEN Lit(parameterMap.map[part.text]) ELSE part
      [] template.t \in {"arr", "obj"} ->
            /\ result.t = template.t
            /\ Len(result.items) = Len(template.items)
            /\ \A i \in 1..Len(template.items) :
                  IF template.t = "arr"
                     THEN ReplacedIn(template.items[i], result.items[i], parameterMap)
                     ELSE /\ result.items[i].key = template.items[i].key
                          /\ ReplacedIn(template.items[i].val, result.items[i].val, parameterMap)
      [] OTHER -> result = template

\* C11: replaceParametersInObject returns a copy of the template in which, at
\* every depth of objects and arrays, each placeholder with a non-null value
\* is replaced by String(value), each placeholder without a value is kept,
\* and everything else is unchanged; the template itself is not modified.
C11_PlaceholdersReplaced ==
    replaceCall.called =>
        /\ ReplacedIn(replaceCall.template, replaceCall.result, replaceCall.parameterMap)
        /\ replaceCall.templateAfter = replaceCall.template

\* a nested template was processed with one placeholder that has a value and one
\* that has none
C11_NestedWitness ==
    /\ replaceCall.called
    /\ replaceCall.template.t = "obj"
    /\ Len(replaceCall.template.items) = 2
    /\ replaceCall.template.items[2].val.t = "obj"
    /\ replaceCall.parameterMap = Params([n \in {"coin"} |-> "BTC"])
    /\ replaceCall.result # replaceCall.template
    /\ HasPlaceholder(replaceCall.result)

\* the arguments of the lookups
AssetIdArgs == {Null} \cup { Value(id) : id \in AllMidsIds }
AssetNameArgs == MapNames \cup {N_ETH, <<"b","t","c">>}

CanAdvance(k) ==
    CASE loads[k].pc = "allMids" -> ENABLED (\E o \in FetchOutcomes(ApiPayloads) : DashAllMidsSettle(k, o))
      [] loads[k].pc = "meta"    -> ENABLED (\E o \in FetchOutcomes(ApiPayloads) : DashMetaSettle(k, o))
      [] loads[k].pc = "l2Book"  -> ENABLED (\E o \in FetchOutcomes(ApiPayloads) : DashL2BookSettle(k, o))
      [] OTHER -> TRUE

\* C14: once BtcDashboard is unmounted its timer is cleared and no new load is
\* started afterwards, while the loads in flight are not cancelled: each one
\* can still take its next step, and no step takes a started load back.
C14_TeardownStopsPollingOnly ==
    /\ [](timer.mounted = "gone" =>
            /\ ~timer.interval
            /\ ~ENABLED DashInterval /\ ~ENABLED DashRefreshClick
            /\ \A k \in LoadIds : CanAdvance(k))
    /\ [][timer.mounted = "gone" =>
            /\ timer'.mounted = "gone"
            /\ \A k \in LoadIds :
                  /\ loads[k].pc = "idle" => loads'[k].pc = "idle"
                  /\ loads[k].pc # "idle" => loads'[k].pc # "idle"]_vars

\* a load that was in flight at the unmount reached its end afterwards: the
\* dashboard state no longer takes its order book
C14_FinishedAfterUnmountWitness ==
    /\ timer.mounted = "gone"
    /\ timer.resolved # <<>>
    /\ loads[LastResolved].pc = "done"
    /\ dash.orderBook.load # LastResolved

\* C15: ApiPlayground keeps the last-used form values in localStorage: after
\* every change the selected endpoint id and the parameter values of the
\* selected endpoint are written under their keys, and after a remount the form
\* shows the endpoint and the parameter values that were last entered.
C15_FormSurvivesReload ==
    /\ form.mounted =>
          /\ storage.endpoint = IdItem(form.currentId)
          /\ storage.params[endpointOf(form.currentId)] = ParamsItem(form.params)
    /\ (form.mounted /\ form.reloaded /\ ~form.touched) =>
          /\ form.currentId = form.shownId
          /\ form.params = form.shownParams

\* the sockets constructed by openWS so far
Opened == { s \in SockIds : sockets[s].state # "none" }

\* C16: for each WebSocket opened by openWS, the subscribe message built from
\* the init-message template is sent exactly once, only after the open event of
\* that connection and before any of its messages is recorded; a connection
\* whose init message is the empty object sends nothing.
C16_InitMessageSentOnceAfterOpen ==
    \A s \in Opened :
        LET sock == sockets[s] IN
        /\ sock.sent = IF sock.opened /\ sock.initMsg # JObj(<<>>)
                          THEN <<stringify(sock.initMsg)>> ELSE <<>>
        /\ sock.recorded > 0 => sock.opened
        /\ ~HasPlaceholder(sock.initMsg)

\* a socket with the subscribe message of ETH has opened, sent it once and
\* recorded a message; an earlier socket with an empty init message opened too
C16_SubscribedWitness ==
    /\ sockets[1].opened /\ sockets[1].initMsg = JObj(<<>>) /\ sockets[1].sent = <<>>
    /\ sockets[2].opened /\ sockets[2].recorded > 0
    /\ Len(sockets[2].sent) = 1
    /\ "ETH" \in { sockets[2].sent[1][i] : i \in 1..Len(sockets[2].sent[1]) }

\* C17: in App.jsx sendRequest and fetchAndListMarkets are not coordinated:
\* each is guarded by its own loading flag only (so both can be in flight at
\* once), and when both are idle again the shared response state holds the
\* result of the one that settled last.
C17_LastSettledHandlerWins ==
    /\ app.loading <=> app.sending # ""
    /\ app.listLoading <=> app.listing # ""
    /\ (ENABLED AppSendRequest) <=> ~app.loading
    /\ (ENABLED AppFetchAndListMarkets("perp")) <=> ~app.listLoading
    /\ (app.sending = "" /\ app.listing = "" /\ app.lastBy # "") =>
          app.response = IF app.lastBy = "send" THEN sendResult(app.lastOutcome)
                         ELSE listResult(app.lastKind, app.lastOutcome)

\* both handlers were in flight together and sendRequest settled first: the
\* list of markets that fetchAndListMarkets set afterwards is what is shown
C17_OverlapWitness ==
    /\ app.overlap /\ app.sending = "" /\ app.listing = ""
    /\ app.lastBy = "list"
    /\ app.response.t = "markets" /\ app.response.markets = <<"BTC", "ETH">>

C20_LoadingOnlyUntilFirstLoad ==
    /\ [](timer.mounted = "no" => dash.loading)
    /\ [](timer.mounted = "yes" => (dash.loading <=> timer.resolved = <<>>))
    /\ [][~dash.loading => ~dash'.loading]_vars

\* after the first load settled a manual refresh and a poll are both in flight
\* and the dashboard, still mounted, does not show the loading screen
C20_PollingWitness ==
    /\ timer.mounted = "yes" /\ ~dash.loading
    /\ Len(timer.resolved) = 1
    /\ Cardinality({ k \in LoadIds : loads[k].pc \in {"allMids", "meta", "l2Book"} }) = 2

\* C21: in BtcDashboard a failure of the order-book request does not put the
\* dashboard in the error state: the load still updates lastUpdate and clears
\* loading, error stays null, and orderBook keeps the value it had before that
\* load (so the order book a load leaves behind is either the earlier one or
\* the one of a successful request).
C21_OrderBookFailureKeepsBook ==
    [][\A k \in LoadIds :
          (timer.mounted = "yes" /\ loads[k].pc = "l2Book" /\ loads'[k].pc = "done") =>
              /\ dash'.error = dash.error
              /\ ~dash'.loading
              /\ dash'.lastUpdate = now
              /\ (dash'.orderBook = dash.orderBook \/ dash'.orderBook.success)]_vars

\* the body of the HTTP response o as runREST shows it
ShownBody(o) == IF o.contentJson THEN RestJson(o.data) ELSE RestText(o.bodyText)

\* C22: a REST run is pending, with a null response, until its fetch settles; once
\* it has settled loading is false and the status is never "pending": it is
\* "HTTP <code>" with the body as response for any HTTP response, error codes
\* included, and "error" with {error: message} when the fetch throws.
C22_RestRunSettles ==
    /\ runRest.pc = "idle" => runRest.status = StatusIdle /\ ~runRest.loading
    /\ runRest.pc = "awaiting" =>
           runRest.loading /\ runRest.status = StatusPending /\ runRest.response = RestNull
    /\ runRest.pc = "settled" =>
           /\ ~runRest.loading
           /\ runRest.status # StatusPending
           /\ runRest.outcome.kind = "response" =>
                  /\ runRest.status = StatusHttp(runRest.outcome.status)
                  /\ runRest.response = ShownBody(runRest.outcome)
           /\ runRest.outcome.kind = "reject" =>
                  /\ runRest.status = StatusError
                  /\ runRest.response = RestError(runRest.outcome.message)

\* C22 (amended): as C22_RestRunSettles, except that "HTTP <code>" and the body are
\* shown for the HTTP responses whose body can be read; a response declared as JSON
\* whose body does not parse ends, like a fetch that throws, with status "error"
\* and {error: message}.
C22_RestRunSettlesReadable ==
    /\ runRest.pc = "idle" => runRest.status = StatusIdle /\ ~runRest.loading
    /\ runRest.pc = "awaiting" =>
           runRest.loading /\ runRest.status = StatusPending /\ runRest.response = RestNull
    /\ runRest.pc = "settled" =>
           /\ ~runRest.loading
           /\ runRest.status # StatusPending
           /\ IF runRest.outcome.kind = "response"
                 /\ (runRest.outcome.contentJson => runRest.outcome.jsonOk)
                 THEN /\ runRest.status = StatusHttp(runRest.outcome.status)
                      /\ runRest.response = ShownBody(runRest.outcome)
                 ELSE /\ runRest.status = StatusError
                      /\ runRest.response =
                             RestError(IF runRest.outcome.kind = "reject"
                                          THEN runRest.outcome.message
                                          ELSE MsgJsonSyntax)

\* a second run has settled on an HTTP error code, shown with its body
C22_ErrorCodeShown ==
    /\ runRest.runs = 2
    /\ runRest.pc = "settled"
    /\ runRest.outcome.status = 404
    /\ runRest.status = StatusHttp(404)
    /\ runRest.response = RestText(S_fetch)

\* C23: the WebSocket message list never holds more than 200 messages and is
\* ordered newest first: a received message is inserted at the head, the others
\* keep their order behind it and the oldest is dropped beyond 200; openWS empties
\* the list.
C23_MessagesCappedNewestFirst ==
    /\ [](Len(wsMessages) <= WsKeep)
    /\ [][/\ \A s \in SockIds :
                sockets'[s].recorded = sockets[s].recorded + 1 =>
                    /\ Len(wsMessages') =
                           (IF Len(wsMessages) < WsKeep THEN Len(wsMessages) + 1 ELSE WsKeep)
                    /\ wsMessages'[1].from = s
                    /\ \A i \in 2..Len(wsMessages') : wsMessages'[i] = wsMessages[i - 1]
          /\ (wsRef' # wsRef /\ wsRef' # 0) => wsMessages' = <<>>]_vars

\* a message arrived while the list held 200 messages: it is at the head, the
\* message that was last but one is now the last
C23_OldestDropped ==
    /\ Len(wsMessages) = WsKeep
    /\ sockets[1].recorded = 1
    /\ wsMessages[1].from = 1
    /\ wsMessages[2] = FilledEntry(1)
    /\ wsMessages[WsKeep] = FilledEntry(WsKeep - 1)

\* the names of the universe entries of data whose context is of the kind
NamesOfKind(data, kind) ==
    { data.universe[i] : i \in { j \in 1..Len(data.universe) : data.ctxs[j] = kind } }

\* C24: the response of fetchAndListMarkets(kind) is {kind, count, markets}, with
\* count the length of markets and markets sorted and holding exactly the names of
\* the universe entries whose context is of the kind, whenever universe and
\* contexts are arrays of equal length; it is {note, data} with the raw payload only
\* when the structure is unexpected, and {error} when the fetch throws.
C24_CompactListWhenParsed ==
    (app.lastBy = "list" /\ app.response.by = "list") =>
        LET o == app.lastOutcome
            r == app.response
            parsed == /\ o.kind = "json"
                      /\ Len(o.data.universe) > 0
                      /\ Len(o.data.universe) = Len(o.data.ctxs)
        IN  /\ parsed =>
                /\ r.t = "markets"
                /\ r.kind = app.lastKind
                /\ r.count = Len(r.markets)
                /\ \A i, j \in 1..Len(r.markets) : i < j => ~LocaleBefore(r.markets[j], r.markets[i])
                /\ { r.markets[i] : i \in 1..Len(r.markets) } = NamesOfKind(o.data, app.lastKind)
            /\ r.t = "raw" => ~parsed /\ o.kind = "json" /\ r.data = o.data
            /\ o.kind = "reject" => r.t = "error" /\ r.message = o.message

\* C25: the response displayed by SimpleApiPlayground belongs to the selected
\* endpoint: no response produced by a request issued for another endpoint is
\* shown while the selected endpoint is a different one.
C25_ResponseOfSelectedEndpoint ==
    play.response # NullResponse => play.response.endpoint = play.selectedEndpoint

\* the ids handed to the lookups: null, ids in the form String(index), and ids
\* written with a leading zero or with text after the digits
LookupIds == AssetIdArgs \cup { Value("01"), Value("1x") }

C28_StaleEventsKeepWsOpen ==
    (wsRef # 0 /\ sockets[wsRef].state = "open") => wsOpen

\* C29: after openWS has replaced a connection the message list holds only
\* messages of the current connection: a message of a superseded socket is never
\* added to the list that openWS emptied.
C29_OnlyCurrentConnectionMessages ==
    wsRef # 0 => \A i \in 1..Len(wsMessages) : wsMessages[i].from = wsRef

\* socket 2 had delivered a message and was open when openWS replaced it; its
\* close is still under way and the list holds the one message of socket 3
C29_ReplacedWhileOpen ==
    /\ wsRef = 3
    /\ sockets[2].state = "closing"
    /\ sockets[2].recorded = 1
    /\ sockets[2].closeRequested
    /\ Len(wsMessages) = 1
    /\ wsMessages[1].from = 3

====
